---------------------------- MODULE Spec2Model ----------------------------
(***************************************************************************)
(* Risk ledger (core/risk.py RiskManager) and order gateway               *)
(* (core/trader.py Trader) of the quant-trading repository.               *)
(*                                                                         *)
(* Units.  Money and prices are integers in cents; percentages are        *)
(* integers in percent, so the code's `x > balance * pct` is written       *)
(* `x * 100 > balance * pct`.  Stop and take-profit levels are kept in     *)
(* 1/100 cent (cost in cents times a percentage), which keeps              *)
(* cost * (1 - pct) exact.  Time is an integer tick read from one clock:   *)
(* datetime.now() is `now`, date.today() is `now \div DayTicks`.           *)
(* Python's None is the empty sequence, a present value v is <<v>>.       *)
(***************************************************************************)
EXTENDS Integers, Sequences, FiniteSets, TLC

VARIABLES
    config,           \* RiskManager.config (RiskConfig), read-only after construction
    now,              \* the process-local clock
    emergency_stop,   \* RiskManager._emergency_stop
    daily_stats,      \* RiskManager._daily_stats: date -> stats record
    last_order_time,  \* RiskManager._last_order_time: symbol -> time
    position_stops,   \* RiskManager._position_stops: symbol -> (key -> level)
    state_file,       \* data/risk_state.json: None, or <<state record>>
    trade_log,        \* data/trades.jsonl: sequence of TradeRecord
    dry_run,          \* Trader.dry_run
    broker_orders,    \* orders handed to trade_ctx.submit_order
    session_start,    \* history: length of the trade log when this process started
    smart_config,     \* SmartStopManager.config
    atr_cache,        \* SmartStopManager._atr_cache: symbol -> (atr, time)
    market_cache,     \* SmartStopManager._market_cache: benchmark -> (change, time)
    in_flight,        \* submit_order calls past their risk check: caller -> None or <<request>>
    peer,             \* the RiskManager of a second process on the same data directory, or None
    ret               \* the last operation and what it returned

vars == <<config, now, emergency_stop, daily_stats, last_order_time,
          position_stops, state_file, trade_log, dry_run, broker_orders,
          session_start, smart_config, atr_cache, market_cache, in_flight, peer,
          ret>>

\* The exit voter's state, with the calls in flight and the second process.
voter_vars == <<smart_config, atr_cache, market_cache, in_flight, peer>>

-----------------------------------------------------------------------------
(* Bounds of the model *)

\* The clock runs from 0 to MaxTime.
MaxTime == 3

\* Ticks per calendar date.
DayTicks == 2

\* Longest trade log (number of record_trade calls) explored.
MaxTrades == 2

-----------------------------------------------------------------------------
(* Values *)

None == <<>>

Some(v) == <<v>>

\* The threads of a process that call Trader.submit_order.
Callers == {"auto_trade", "monitor"}

\* No submit_order call is between its risk check and its record.
NoCalls == [c \in Callers |-> None]

Symbols == {"AAPL", "TSLA"}

Sides == {"buy", "sell"}

Today == now \div DayTicks

\* RiskConfig() with the dataclass defaults, in cents and percent, with the
\* two limits a short run has to reach scaled down: 2 trades a day instead
\* of 20, a cooldown of 2 ticks instead of 60 seconds.
DefaultConfig ==
    [ max_trading_capital     |-> None,
      max_single_position_pct |-> 10,
      max_total_position_pct  |-> 80,
      min_cash_reserve_pct    |-> 20,
      default_stop_loss_pct   |-> 5,
      default_take_profit_pct |-> 15,
      daily_loss_limit_pct    |-> 3,
      daily_trade_limit       |-> 2,
      max_order_value         |-> 5000000,
      min_order_value         |-> 10000,
      order_cooldown_seconds  |-> 2 ]

\* A config with a trading-capital cap of $50,000, a cash reserve that is
\* stricter than the total-position cap, a wider single-position cap and a
\* smaller order window.
CappedConfig ==
    [ DefaultConfig EXCEPT !.max_trading_capital     = Some(5000000),
                           !.max_single_position_pct = 50,
                           !.max_total_position_pct  = 90,
                           !.min_cash_reserve_pct    = 30,
                           !.max_order_value         = 2000000,
                           !.min_order_value         = 50000,
                           !.daily_trade_limit       = 1,
                           !.order_cooldown_seconds  = 1 ]

\* A config whose single-position cap never binds before max_order_value
\* and that asks for no cash reserve.
WideConfig ==
    [ DefaultConfig EXCEPT !.max_single_position_pct = 100,
                           !.min_cash_reserve_pct    = 0 ]

Configs == {DefaultConfig, CappedConfig, WideConfig}

\* SmartStopConfig with its defaults.  Percentages are whole percents; the
\* two multipliers are in tenths (2.5 and 1.2).
DefaultSmartConfig ==
    [ atr_period         |-> 14,
      atr_multiplier     |-> 25,
      min_stop_pct       |-> 3,
      max_stop_pct       |-> 15,
      use_close_only     |-> TRUE,
      market_drop_buffer |-> 12,
      vote_threshold     |-> 2,
      take_profit_pct    |-> 15 ]

-----------------------------------------------------------------------------
(* RiskManager: pure helpers *)

Min(a, b) == IF a <= b THEN a ELSE b

\* get_effective_balance: the cap applies when it is set and positive.
get_effective_balance(cfg, account_balance) ==
    IF cfg.max_trading_capital # None /\ cfg.max_trading_capital[1] > 0
    THEN Min(account_balance, cfg.max_trading_capital[1])
    ELSE account_balance

\* sum(p.get("market_value", 0) for p in current_positions)
RECURSIVE SumMarketValue(_)
SumMarketValue(positions) ==
    IF positions = <<>> THEN 0
    ELSE Head(positions).market_value + SumMarketValue(Tail(positions))

ZeroStats == [trade_count |-> 0, realized_pnl |-> 0, buy_value |-> 0, sell_value |-> 0]

\* _get_daily_stats: the map after the call (the entry is created when absent).
GetDailyStatsMap(stats, day) ==
    IF day \in DOMAIN stats THEN stats
    ELSE [d \in DOMAIN stats \cup {day} |-> IF d = day THEN ZeroStats ELSE stats[d]]

Abs(x) == IF x < 0 THEN -x ELSE x

Verdict(ok, reason, stats) == [ok |-> ok, reason |-> reason, daily_stats |-> stats]

\* An order as validate_order receives it.
Order(symbol, side, quantity, price, account_balance, current_positions) ==
    [ symbol |-> symbol, side |-> side, quantity |-> quantity, price |-> price,
      account_balance |-> account_balance, current_positions |-> current_positions ]

\* The ledger state validate_order reads.
Ledger ==
    [ config |-> config, emergency_stop |-> emergency_stop, daily_stats |-> daily_stats,
      last_order_time |-> last_order_time, now |-> now ]

\* Mutant of ValidateCooldown: one cooldown for all symbols.
ValidateCooldown_AnySymbol(L, o, map) ==
    IF \E s \in DOMAIN L.last_order_time :
          L.now - L.last_order_time[s] < L.config.order_cooldown_seconds
    THEN Verdict(FALSE, "cooldown", map)
    ELSE Verdict(TRUE, "ok", map)

\* validate_order, check 8: the per-symbol cooldown.
ValidateCooldown(L, o, map) ==
    IF o.symbol \in DOMAIN L.last_order_time
       /\ L.now - L.last_order_time[o.symbol] < L.config.order_cooldown_seconds
    THEN Verdict(FALSE, "cooldown", map)
    ELSE Verdict(TRUE, "ok", map)

\* Mutant of ValidateDaily: the trade count compared with > instead of >=.
ValidateDaily_OffByOne(L, o, effective_balance) ==
    LET today == L.now \div DayTicks
        map   == GetDailyStatsMap(L.daily_stats, today)
        ds    == map[today]
    IN  IF ds.trade_count > L.config.daily_trade_limit
        THEN Verdict(FALSE, "daily_trade_limit", map)
        ELSE IF ds.realized_pnl < 0
                /\ Abs(ds.realized_pnl) * 100 >= L.config.daily_loss_limit_pct * effective_balance
        THEN Verdict(FALSE, "daily_loss_limit", map)
        ELSE ValidateCooldown(L, o, map)

\* validate_order, checks 6 and 7: today's entry is fetched (and created when
\* absent), then the trade count and the realized loss are compared.
ValidateDaily(L, o, effective_balance) ==
    LET today == L.now \div DayTicks
        map   == GetDailyStatsMap(L.daily_stats, today)
        ds    == map[today]
    IN  IF ds.trade_count >= L.config.daily_trade_limit
        THEN Verdict(FALSE, "daily_trade_limit", map)
        ELSE IF ds.realized_pnl < 0
                /\ Abs(ds.realized_pnl) * 100 >= L.config.daily_loss_limit_pct * effective_balance
        THEN Verdict(FALSE, "daily_loss_limit", map)
        ELSE ValidateCooldown(L, o, map)

\* Mutant of ValidateBuyLimits: the cash reserve checked before the total
\* position.
ValidateBuyLimits_ReserveFirst(L, o, effective_balance, order_value) ==
    LET held == SumMarketValue(o.current_positions)
    IN  IF o.side = "buy"
           /\ (effective_balance - held - order_value) * 100
                < effective_balance * L.config.min_cash_reserve_pct
        THEN Verdict(FALSE, "cash_reserve", L.daily_stats)
        ELSE IF o.side = "buy"
                /\ (held + order_value) * 100
                     > effective_balance * L.config.max_total_position_pct
        THEN Verdict(FALSE, "total_position", L.daily_stats)
        ELSE ValidateDaily(L, o, effective_balance)

\* validate_order, checks 4 and 5: total position and cash reserve, buys only.
ValidateBuyLimits(L, o, effective_balance, order_value) ==
    LET held == SumMarketValue(o.current_positions)
    IN  IF o.side = "buy"
           /\ (held + order_value) * 100 > effective_balance * L.config.max_total_position_pct
        THEN Verdict(FALSE, "total_position", L.daily_stats)
        ELSE IF o.side = "buy"
                /\ (effective_balance - held - order_value) * 100
                     < effective_balance * L.config.min_cash_reserve_pct
        THEN Verdict(FALSE, "cash_reserve", L.daily_stats)
        ELSE ValidateDaily(L, o, effective_balance)

\* Mutant of ValidateOrderValue: the upper bound of the window is not checked.
ValidateOrderValue_NoMaximum(L, o) ==
    LET effective_balance == get_effective_balance(L.config, o.account_balance)
        order_value       == o.quantity * o.price
    IN  IF order_value < L.config.min_order_value
        THEN Verdict(FALSE, "min_order_value", L.daily_stats)
        ELSE IF order_value * 100 > effective_balance * L.config.max_single_position_pct
        THEN Verdict(FALSE, "single_position", L.daily_stats)
        ELSE ValidateBuyLimits(L, o, effective_balance, order_value)

\* validate_order, checks 2 and 3: the order value window and the
\* single-position cap.
ValidateOrderValue(L, o) ==
    LET effective_balance == get_effective_balance(L.config, o.account_balance)
        order_value       == o.quantity * o.price
    IN  IF order_value < L.config.min_order_value
        THEN Verdict(FALSE, "min_order_value", L.daily_stats)
        ELSE IF order_value > L.config.max_order_value
        THEN Verdict(FALSE, "max_order_value", L.daily_stats)
        ELSE IF order_value * 100 > effective_balance * L.config.max_single_position_pct
        THEN Verdict(FALSE, "single_position", L.daily_stats)
        ELSE ValidateBuyLimits(L, o, effective_balance, order_value)

\* Mutant of validate_order: the emergency stop checked for buys only.
validate_order_StopBuysOnly(L, o) ==
    IF L.emergency_stop /\ o.side = "buy"
    THEN Verdict(FALSE, "emergency_stop", L.daily_stats)
    ELSE ValidateOrderValue(L, o)

\* validate_order: the verdict, the check that rejected (the reason) and the
\* _daily_stats map the call leaves behind.
validate_order(L, o) ==
    IF L.emergency_stop
    THEN Verdict(FALSE, "emergency_stop", L.daily_stats)
    ELSE ValidateOrderValue(L, o)

-----------------------------------------------------------------------------
(* RiskManager: trade records and persistence *)

\* Mutant of TradeRecord: a sell built without a pnl carries a loss of a
\* tenth of its value.
TradeRecord_SellCarriesLoss(id, timestamp, symbol, side, quantity, price, order_id, status, reason, pnl) ==
    [ id |-> id, timestamp |-> timestamp, symbol |-> symbol, side |-> side,
      quantity |-> quantity, price |-> price, value |-> quantity * price,
      order_id |-> order_id, status |-> status, reason |-> reason,
      pnl |-> IF side = "sell" /\ pnl = None THEN Some(-((quantity * price) \div 10))
              ELSE pnl ]

\* TradeRecord.  The id is a fresh token (uuid4 in the gateway); the model
\* numbers the records.
TradeRecord(id, timestamp, symbol, side, quantity, price, order_id, status, reason, pnl) ==
    [ id |-> id, timestamp |-> timestamp, symbol |-> symbol, side |-> side,
      quantity |-> quantity, price |-> price, value |-> quantity * price,
      order_id |-> order_id, status |-> status, reason |-> reason, pnl |-> pnl ]

\* Mutant of RecordedStats: sell_value assigned, not accumulated.
RecordedStats_SellAssigned(ds, trade) ==
    [ trade_count  |-> ds.trade_count + 1,
      realized_pnl |-> IF trade.pnl # None THEN ds.realized_pnl + trade.pnl[1]
                       ELSE ds.realized_pnl,
      buy_value    |-> IF trade.side = "buy" THEN ds.buy_value + trade.value
                       ELSE ds.buy_value,
      sell_value   |-> IF trade.side = "buy" THEN ds.sell_value
                       ELSE trade.value ]

\* record_trade, the statistics part: today's entry after the trade.
RecordedStats(ds, trade) ==
    [ trade_count  |-> ds.trade_count + 1,
      realized_pnl |-> IF trade.pnl # None THEN ds.realized_pnl + trade.pnl[1]
                       ELSE ds.realized_pnl,
      buy_value    |-> IF trade.side = "buy" THEN ds.buy_value + trade.value
                       ELSE ds.buy_value,
      sell_value   |-> IF trade.side = "buy" THEN ds.sell_value
                       ELSE ds.sell_value + trade.value ]

\* record_trade: _daily_stats after the call.
RecordedDailyStats(stats, today, trade) ==
    LET map == GetDailyStatsMap(stats, today)
    IN  [map EXCEPT ![today] = RecordedStats(map[today], trade)]

\* record_trade: _last_order_time after the call.
RecordedOrderTime(lot, t, trade) ==
    [s \in DOMAIN lot \cup {trade.symbol} |-> IF s = trade.symbol THEN t ELSE lot[s]]

\* json.dump of a dict: a JSON object is its set of members <<key, value>>.
JsonObject(f) == {<<k, f[k]>> : k \in DOMAIN f}

\* json.load of an object: the dict with those members.
JsonDict(obj) == [k \in {m[1] : m \in obj} |-> (CHOOSE m \in obj : m[1] = k)[2]]

\* _save_state: the content written to risk_state.json.
SavedState(stopped, stats, stops) ==
    Some([ emergency_stop |-> stopped,
           daily_stats    |-> JsonObject([d \in DOMAIN stats |-> JsonObject(stats[d])]),
           position_stops |-> JsonObject([s \in DOMAIN stops |-> JsonObject(stops[s])]) ])

EmptyMap == [x \in {} |-> 0]

StatsOfJson(obj) ==
    LET f == JsonDict(obj)
    IN  [ trade_count |-> f["trade_count"], realized_pnl |-> f["realized_pnl"],
          buy_value |-> f["buy_value"], sell_value |-> f["sell_value"] ]

\* The content of a risk_state.json that _load_state cannot take in: text
\* that is no JSON (a write that was cut short), JSON that is no object, or a
\* file that cannot be read.
Unloadable == <<"risk_state.json", "unloadable">>

\* The three fields a new RiskManager is constructed with.
DefaultState == [ emergency_stop |-> FALSE, daily_stats |-> EmptyMap, position_stops |-> EmptyMap ]

\* _load_state taking a failure for an emergency stop.
LoadedState_StoppedOnFailure(file) ==
    IF file = None THEN DefaultState
    ELSE IF file = Unloadable THEN [DefaultState EXCEPT !.emergency_stop = TRUE]
    ELSE LET stats == JsonDict(file[1].daily_stats)
             stops == JsonDict(file[1].position_stops)
         IN  [ emergency_stop |-> file[1].emergency_stop,
               daily_stats    |-> [d \in DOMAIN stats |-> StatsOfJson(stats[d])],
               position_stops |-> [s \in DOMAIN stops |-> JsonDict(stops[s])] ]

\* _load_state: the three fields a new RiskManager starts with.  Without a
\* file the constructor's defaults stay; when open, json.load or the first
\* state.get raises, the exception is caught before any field is assigned
\* and the defaults stay as well.
LoadedState(file) ==
    IF file = None \/ file = Unloadable THEN DefaultState
    ELSE LET stats == JsonDict(file[1].daily_stats)
             stops == JsonDict(file[1].position_stops)
         IN  [ emergency_stop |-> file[1].emergency_stop,
               daily_stats    |-> [d \in DOMAIN stats |-> StatsOfJson(stats[d])],
               position_stops |-> [s \in DOMAIN stops |-> JsonDict(stops[s])] ]

-----------------------------------------------------------------------------
(* Inputs *)

\* A position as Trader.get_positions returns it.
Position(symbol, quantity, cost_price, market_value) ==
    [ symbol |-> symbol, quantity |-> quantity, available |-> quantity,
      cost_price |-> cost_price, market_value |-> market_value ]

Quantities == {1, 10, 600}

Prices == {5000, 10000}

Balances == {0, 4000000, 10000000}

PositionLists ==
    { <<>>,
      << Position("AAPL", 300, 10000, 3450000) >>,
      << Position("AAPL", 300, 10000, 3450000), Position("TSLA", 200, 25000, 4500000) >> }

Orders ==
    { Order(s, d, q, p, b, ps) :
        s \in Symbols, d \in Sides, q \in Quantities, p \in Prices,
        b \in Balances, ps \in PositionLists }

\* The orders the ledger is asked about in a run: per symbol and side, one
\* order inside every limit and one above max_order_value, for an account of
\* $100,000 without positions.
LedgerOrders ==
    { Order(s, d, q, 10000, 10000000, <<>>) :
        s \in Symbols, d \in Sides, q \in {10, 600} }

\* The same orders, also for an account that is nearly fully invested.
ProbeOrders ==
    { Order(s, d, q, 10000, 10000000, ps) :
        s \in Symbols, d \in Sides, q \in {10, 600}, ps \in PositionLists }

\* Records a caller hands to record_trade: an opening buy, which carries no
\* pnl, and a closing sell with a realized loss of $1,500.
TradeInputs(id, t) ==
    { TradeRecord(id, t, s, "buy", 10, 10000, None, "filled", "", None) : s \in Symbols }
    \cup
    { TradeRecord(id, t, s, "sell", 10, 12000, None, "filled", "", Some(-150000)) :
        s \in Symbols }

\* Levels a caller hands to set_stop_loss and set_take_profit ($90, $120), in
\* 1/100 cent, and the cost price handed to set_stops_from_cost ($100).
StopLossLevels == {900000}

TakeProfitLevels == {1200000}

CostPrices == {10000}

\* Quotes, symbol to price in 1/10 cent: AAPL below its stop loss and TSLA
\* unchanged; AAPL above its take profit and no quote for TSLA.
QuoteBoards ==
    { [s \in Symbols |-> IF s = "AAPL" THEN 94000 ELSE 250004],
      [s \in {"AAPL"} |-> 116000] }

-----------------------------------------------------------------------------
(* RiskManager: operations *)

Return(op, ok, reason) == [op |-> op, ok |-> ok, reason |-> reason]

\* Mutant of Construct: the last-order times outlive the process.
Construct_KeepsOrderTimes ==
    LET st == LoadedState(state_file)
    IN  /\ emergency_stop'  = st.emergency_stop
        /\ daily_stats'     = st.daily_stats
        /\ position_stops'  = st.position_stops
        /\ last_order_time' = last_order_time

\* RiskManager.__init__ over an existing data directory: defaults, then
\* _load_state.  _last_order_time is not part of the file.
Construct ==
    LET st == LoadedState(state_file)
    IN  /\ emergency_stop'  = st.emergency_stop
        /\ daily_stats'     = st.daily_stats
        /\ position_stops'  = st.position_stops
        /\ last_order_time' = EmptyMap

\* A new process: the singleton RiskManager is constructed again.
Restart ==
    /\ Construct
    /\ session_start' = Len(trade_log)
    /\ atr_cache' = EmptyMap
    /\ market_cache' = EmptyMap
    /\ ret' = Return("init", TRUE, "")
    /\ UNCHANGED <<smart_config, in_flight, peer, config, now, state_file, trade_log, dry_run,
                   broker_orders>>

\* emergency_stop(reason): sets the flag and appends an audit event to
\* risk_events.jsonl (write-only, read by no operation); _save_state is not
\* called.
EmergencyStop ==
    /\ emergency_stop' = TRUE
    /\ ret' = Return("emergency_stop", TRUE, "")
    /\ UNCHANGED <<voter_vars, config, now, daily_stats, last_order_time, position_stops,
                   state_file, trade_log, dry_run, broker_orders, session_start>>

\* resume_trading(): clears the flag and appends an audit event; _save_state
\* is not called.
ResumeTrading ==
    /\ emergency_stop' = FALSE
    /\ ret' = Return("resume_trading", TRUE, "")
    /\ UNCHANGED <<voter_vars, config, now, daily_stats, last_order_time, position_stops,
                   state_file, trade_log, dry_run, broker_orders, session_start>>


\* validate_order stamping the symbol's last order time when it accepts.
ValidateOrder_StampsOrderTime(o) ==
    LET v == validate_order(Ledger, o)
    IN  /\ daily_stats' = v.daily_stats
        /\ ret' = Return("validate_order", v.ok, v.reason)
        /\ last_order_time' = IF v.ok
                              THEN [s \in DOMAIN last_order_time \cup {o.symbol} |->
                                       IF s = o.symbol THEN now ELSE last_order_time[s]]
                              ELSE last_order_time
        /\ UNCHANGED <<voter_vars, config, now, emergency_stop, position_stops,
                       state_file, trade_log, dry_run, broker_orders, session_start>>

\* validate_order(...) called on the ledger.
ValidateOrder(o) ==
    LET v == validate_order(Ledger, o)
    IN  /\ daily_stats' = v.daily_stats
        /\ ret' = Return("validate_order", v.ok, v.reason)
        /\ UNCHANGED <<voter_vars, config, now, emergency_stop, last_order_time, position_stops,
                       state_file, trade_log, dry_run, broker_orders, session_start>>

\* record_trade(trade): statistics, last order time, trade log, _save_state.
record_trade(trade) ==
    /\ daily_stats'     = RecordedDailyStats(daily_stats, Today, trade)
    /\ last_order_time' = RecordedOrderTime(last_order_time, now, trade)
    /\ trade_log'       = Append(trade_log, trade)
    /\ state_file'      = SavedState(emergency_stop, daily_stats', position_stops)

RecordTrade(trade) ==
    /\ Len(trade_log) < MaxTrades
    /\ record_trade(trade)
    /\ ret' = Return("record_trade", TRUE, "")
    /\ UNCHANGED <<voter_vars, config, now, emergency_stop, position_stops, dry_run, broker_orders,
                   session_start>>

\* _position_stops after self._position_stops[symbol][key] = level, the
\* symbol's entry being created when absent.
WithStop(stops, symbol, key, level) ==
    LET old == IF symbol \in DOMAIN stops THEN stops[symbol] ELSE EmptyMap
        new == [k \in DOMAIN old \cup {key} |-> IF k = key THEN level ELSE old[k]]
    IN  [s \in DOMAIN stops \cup {symbol} |-> IF s = symbol THEN new ELSE stops[s]]

\* set_stop_loss(symbol, stop_loss_price)
set_stop_loss(symbol, stop_loss_price) ==
    /\ position_stops' = WithStop(position_stops, symbol, "stop_loss", stop_loss_price)
    /\ state_file' = SavedState(emergency_stop, daily_stats, position_stops')

SetStopLoss(symbol, stop_loss_price) ==
    /\ set_stop_loss(symbol, stop_loss_price)
    /\ ret' = Return("set_stop_loss", TRUE, "")
    /\ UNCHANGED <<voter_vars, config, now, emergency_stop, daily_stats, last_order_time, trade_log,
                   dry_run, broker_orders, session_start>>

\* set_take_profit keeping the level in memory only.
set_take_profit_Unsaved(symbol, take_profit_price) ==
    /\ position_stops' = WithStop(position_stops, symbol, "take_profit", take_profit_price)
    /\ state_file' = state_file

\* set_take_profit(symbol, take_profit_price)
set_take_profit(symbol, take_profit_price) ==
    /\ position_stops' = WithStop(position_stops, symbol, "take_profit", take_profit_price)
    /\ state_file' = SavedState(emergency_stop, daily_stats, position_stops')

SetTakeProfit(symbol, take_profit_price) ==
    /\ set_take_profit(symbol, take_profit_price)
    /\ ret' = Return("set_take_profit", TRUE, "")
    /\ UNCHANGED <<voter_vars, config, now, emergency_stop, daily_stats, last_order_time, trade_log,
                   dry_run, broker_orders, session_start>>

\* cost_price * (1 - default_stop_loss_pct), in 1/100 cent.
StopLossFromCost(cfg, cost_price) == cost_price * (100 - cfg.default_stop_loss_pct)

\* cost_price * (1 + default_take_profit_pct), in 1/100 cent.
TakeProfitFromCost(cfg, cost_price) == cost_price * (100 + cfg.default_take_profit_pct)

\* set_stops_from_cost leaving the levels of a symbol that has some.
StopsFromCost_KeepsEarlierLevels(stops, cfg, symbol, cost_price) ==
    IF symbol \in DOMAIN stops THEN stops
    ELSE WithStop(WithStop(stops, symbol, "stop_loss", StopLossFromCost(cfg, cost_price)),
                  symbol, "take_profit", TakeProfitFromCost(cfg, cost_price))

\* set_stops_from_cost: _position_stops after set_stop_loss and then
\* set_take_profit with the two levels derived from the cost price.
StopsFromCost(stops, cfg, symbol, cost_price) ==
    WithStop(WithStop(stops, symbol, "stop_loss", StopLossFromCost(cfg, cost_price)),
             symbol, "take_profit", TakeProfitFromCost(cfg, cost_price))

\* set_stops_from_cost(symbol, cost_price): each of the two setters ends with
\* _save_state.
set_stops_from_cost(symbol, cost_price) ==
    /\ position_stops' = StopsFromCost(position_stops, config, symbol, cost_price)
    /\ state_file' = SavedState(emergency_stop, daily_stats, position_stops')

SetStopsFromCost(symbol, cost_price) ==
    /\ set_stops_from_cost(symbol, cost_price)
    /\ ret' = Return("set_stops_from_cost", TRUE, "")
    /\ UNCHANGED <<voter_vars, config, now, emergency_stop, daily_stats, last_order_time, trade_log,
                   dry_run, broker_orders, session_start>>

\* The clock advances.
Tick ==
    /\ now < MaxTime
    /\ now' = now + 1
    /\ UNCHANGED <<voter_vars, config, emergency_stop, daily_stats, last_order_time, position_stops,
                   state_file, trade_log, dry_run, broker_orders, session_start, ret>>

-----------------------------------------------------------------------------
(* The ledger used through its own interface *)

\* A first process over an empty data directory.
Init ==
    /\ config = DefaultConfig
    /\ now = 0
    /\ emergency_stop = FALSE
    /\ daily_stats = EmptyMap
    /\ last_order_time = EmptyMap
    /\ position_stops = EmptyMap
    /\ state_file = None
    /\ trade_log = <<>>
    /\ dry_run = FALSE
    /\ broker_orders = <<>>
    /\ session_start = 0
    /\ smart_config = DefaultSmartConfig
    /\ atr_cache = EmptyMap
    /\ market_cache = EmptyMap
    /\ in_flight = NoCalls
    /\ peer = None
    /\ ret = Return("init", TRUE, "")

Next ==
    \/ EmergencyStop
    \/ ResumeTrading
    \/ \E o \in LedgerOrders : ValidateOrder(o)
    \/ \E trade \in TradeInputs(Len(trade_log) + 1, now) : RecordTrade(trade)
    \/ Tick
    \/ Restart

Spec == Init /\ [][Next]_vars

-----------------------------------------------------------------------------
(* Claims about the ledger used through its own interface (Spec) *)

LedgerNext ==
    [ config |-> config', emergency_stop |-> emergency_stop', daily_stats |-> daily_stats',
      last_order_time |-> last_order_time', now |-> now' ]

\* C1: while the emergency-stop flag of a ledger is set, validate_order
\* rejects every order, whatever the symbol, side, quantity, price, balance
\* and positions; and in the life of that ledger the flag, once set, is
\* cleared by resume_trading alone (a step that clears it is resume_trading,
\* or the start of a new process, which builds another ledger).
C1_StoppedRejectsEveryOrder ==
    /\ [](emergency_stop => \A o \in Orders : ~validate_order(Ledger, o).ok)
    /\ [][(emergency_stop /\ ~emergency_stop')
            => (ret'.op = "resume_trading" \/ session_start' # session_start
                \/ ret'.op = "init")]_vars

\* C1 witness: the flag is set and a validate_order call has just been
\* rejected because of it.
C1_Witness ==
    /\ emergency_stop
    /\ ret = Return("validate_order", FALSE, "emergency_stop")

\* C6: after emergency_stop or resume_trading returns, risk_state.json
\* records the flag as it now is in memory: a ledger constructed from the
\* data directory at that point is stopped exactly if this one is.
C6_FlagIsPersisted ==
    ret.op \in {"emergency_stop", "resume_trading"}
        => LoadedState(state_file).emergency_stop = emergency_stop

\* The records of the trade log dated d, in order.
RECURSIVE LogOfDate(_, _)
LogOfDate(log, d) ==
    IF log = <<>> THEN <<>>
    ELSE IF Head(log).timestamp \div DayTicks = d
         THEN <<Head(log)>> \o LogOfDate(Tail(log), d)
         ELSE LogOfDate(Tail(log), d)

RECURSIVE SumValue(_, _)
SumValue(log, side) ==
    IF log = <<>> THEN 0
    ELSE (IF Head(log).side = side THEN Head(log).value ELSE 0) + SumValue(Tail(log), side)

RECURSIVE SumPnl(_)
SumPnl(log) ==
    IF log = <<>> THEN 0
    ELSE (IF Head(log).pnl # None THEN Head(log).pnl[1] ELSE 0) + SumPnl(Tail(log))

Dates == 0 .. (MaxTime \div DayTicks)

\* The statistics of date d, zero while the date has no entry.
StatsOf(d) == IF d \in DOMAIN daily_stats THEN daily_stats[d] ELSE ZeroStats

\* C8: for every date, trade_count is the number of record_trade calls made
\* on that date, buy_value and sell_value are the sums of the values of the
\* recorded buys and sells, realized_pnl is the sum of the pnl the records
\* carry.
C8_StatsAreSums ==
    \A d \in Dates :
        LET recs == LogOfDate(trade_log, d)
        IN  /\ StatsOf(d).trade_count  = Len(recs)
            /\ StatsOf(d).buy_value    = SumValue(recs, "buy")
            /\ StatsOf(d).sell_value   = SumValue(recs, "sell")
            /\ StatsOf(d).realized_pnl = SumPnl(recs)

\* C8 witness: a buy and a sell with a loss recorded on the second date,
\* after a trade on the first.
C8_Witness ==
    /\ Today = 1
    /\ Len(LogOfDate(trade_log, 0)) >= 1
    /\ Len(LogOfDate(trade_log, 1)) >= 1
    /\ ret.op = "record_trade"
    /\ StatsOf(1).trade_count >= 1
    /\ StatsOf(0).buy_value + StatsOf(1).buy_value > 0
    /\ StatsOf(0).realized_pnl + StatsOf(1).realized_pnl < 0

\* C9: once the number of trades recorded today has reached
\* daily_trade_limit, validate_order accepts no order; on a date without a
\* recorded trade no order is rejected for the trade count.
C9_DailyTradeLimit ==
    LET today_count == Len(LogOfDate(trade_log, Today))
    IN  \A o \in ProbeOrders :
            /\ today_count >= config.daily_trade_limit
                 => ~validate_order(Ledger, o).ok
            /\ today_count = 0
                 => validate_order(Ledger, o).reason # "daily_trade_limit"

\* C9 witness: the limit was reached on the first date and an order inside
\* every other limit was rejected for it; the clock is still on that date.
C9_Witness ==
    /\ Today = 0
    /\ now > 0
    /\ Len(LogOfDate(trade_log, Today)) >= config.daily_trade_limit
    /\ ret = Return("validate_order", FALSE, "daily_trade_limit")

\* The times at which this process recorded a trade of symbol s.
SessionTimes(s) ==
    { trade_log[i].timestamp :
        i \in { j \in (session_start + 1) .. Len(trade_log) : trade_log[j].symbol = s } }

Max(S) == CHOOSE x \in S : \A y \in S : y <= x

\* C10: after record_trade for symbol s at time t, validate_order rejects
\* every order for s before t + order_cooldown_seconds, and from then on the
\* cooldown check does not reject an order for s; a symbol this process has
\* recorded no trade for is never rejected by the cooldown check.
C10_Cooldown ==
    \A o \in ProbeOrders :
        LET v     == validate_order(Ledger, o)
            times == SessionTimes(o.symbol)
        IN  IF times = {}
            THEN v.reason # "cooldown"
            ELSE IF now < Max(times) + config.order_cooldown_seconds
            THEN ~v.ok
            ELSE v.reason # "cooldown"

\* C10 witness: one symbol is cooling down and was just rejected for it,
\* while the other symbol's cooldown is over.
C10_Witness ==
    /\ ret = Return("validate_order", FALSE, "cooldown")
    /\ \E s \in Symbols :
          /\ SessionTimes(s) # {}
          /\ now >= Max(SessionTimes(s)) + config.order_cooldown_seconds
    /\ \E s \in Symbols :
          /\ SessionTimes(s) # {}
          /\ now < Max(SessionTimes(s)) + config.order_cooldown_seconds

-----------------------------------------------------------------------------
(* validate_order as a function of the ledger and the order (SpecValidate) *)

\* The ledger after record_trade at time t, starting from h.
Recorded(h, t, trade) ==
    [ daily_stats     |-> RecordedDailyStats(h.daily_stats, t \div DayTicks, trade),
      last_order_time |-> RecordedOrderTime(h.last_order_time, t, trade),
      trade_log       |-> Append(h.trade_log, trade),
      time            |-> t ]

NoHistory ==
    [ daily_stats |-> EmptyMap, last_order_time |-> EmptyMap, trade_log |-> <<>>, time |-> 0 ]

\* What one more record_trade, at the time of h or later, makes of h.
RecordedAfter(h) ==
    UNION { { Recorded(h, t, trade) : trade \in TradeInputs(Len(h.trade_log) + 1, t) } :
            t \in h.time .. MaxTime }

\* The ledgers one process reaches with at most two record_trade calls.
Histories ==
    LET one == RecordedAfter(NoHistory)
    IN  {NoHistory} \cup one \cup UNION { RecordedAfter(h) : h \in one }

\* A ledger of any config, stopped or not, after any of those histories, at
\* any later time.
InitValidate ==
    /\ config \in Configs
    /\ emergency_stop \in BOOLEAN
    /\ \E h \in Histories :
          /\ daily_stats = h.daily_stats
          /\ last_order_time = h.last_order_time
          /\ trade_log = h.trade_log
          /\ state_file = IF h.trade_log = <<>> THEN None
                          ELSE SavedState(FALSE, h.daily_stats, EmptyMap)
          /\ now \in h.time .. MaxTime
    /\ position_stops = EmptyMap
    /\ dry_run = FALSE
    /\ broker_orders = <<>>
    /\ session_start = 0
    /\ smart_config = DefaultSmartConfig
    /\ atr_cache = EmptyMap
    /\ market_cache = EmptyMap
    /\ in_flight = NoCalls
    /\ peer = None
    /\ ret = Return("init", TRUE, "")

NextValidate == \E o \in Orders : ValidateOrder(o)

SpecValidate == InitValidate /\ [][NextValidate]_vars

\* Check k of validate_order, as a condition on the ledger and the order.
CheckViolated(k, L, o) ==
    LET balance == get_effective_balance(L.config, o.account_balance)
        value   == o.quantity * o.price
        held    == SumMarketValue(o.current_positions)
        today   == L.now \div DayTicks
        stats   == IF today \in DOMAIN L.daily_stats THEN L.daily_stats[today] ELSE ZeroStats
    IN  CASE k = 1 -> L.emergency_stop
          [] k = 2 -> value < L.config.min_order_value \/ value > L.config.max_order_value
          [] k = 3 -> value * 100 > balance * L.config.max_single_position_pct
          [] k = 4 -> o.side = "buy"
                      /\ (held + value) * 100 > balance * L.config.max_total_position_pct
          [] k = 5 -> o.side = "buy"
                      /\ (balance - held - value) * 100 < balance * L.config.min_cash_reserve_pct
          [] k = 6 -> ~(stats.trade_count < L.config.daily_trade_limit)
          [] k = 7 -> stats.realized_pnl < 0
                      /\ ~(Abs(stats.realized_pnl) * 100 < L.config.daily_loss_limit_pct * balance)
          [] k = 8 -> o.symbol \in DOMAIN L.last_order_time
                      /\ ~(L.now - L.last_order_time[o.symbol] >= L.config.order_cooldown_seconds)

\* The lowest-numbered violated check, 0 when none is violated.
FirstViolated(L, o) ==
    IF \E k \in 1..8 : CheckViolated(k, L, o)
    THEN CHOOSE k \in 1..8 :
            /\ CheckViolated(k, L, o)
            /\ \A j \in 1..(k - 1) : ~CheckViolated(j, L, o)
    ELSE 0

\* The check a reason belongs to.
CheckOfReason(reason) ==
    CASE reason = "ok"                -> 0
      [] reason = "emergency_stop"    -> 1
      [] reason = "min_order_value"   -> 2
      [] reason = "max_order_value"   -> 2
      [] reason = "single_position"   -> 3
      [] reason = "total_position"    -> 4
      [] reason = "cash_reserve"      -> 5
      [] reason = "daily_trade_limit" -> 6
      [] reason = "daily_loss_limit"  -> 7
      [] reason = "cooldown"          -> 8

\* C3: validate_order accepts exactly when none of the checks 1 to 8 is
\* violated, and otherwise rejects with the reason of the lowest-numbered
\* violated check.
C3_FirstViolatedCheckDecides ==
    \A o \in Orders :
        LET v == validate_order(Ledger, o)
        IN  /\ v.ok <=> (FirstViolated(Ledger, o) = 0)
            /\ CheckOfReason(v.reason) = FirstViolated(Ledger, o)

\* C3 witness: an order that violates the cooldown and no earlier check has
\* been rejected for the cooldown, in a ledger with a realized loss that
\* stays under the daily loss limit.
C3_Witness ==
    /\ ret = Return("validate_order", FALSE, "cooldown")
    /\ StatsOf(Today).realized_pnl < 0
    /\ StatsOf(Today).trade_count >= 1

\* C4 as claimed: validate_order accepts only orders whose value lies within
\* [min_order_value, max_order_value], and in every ledger state an order
\* outside that range is rejected with the reason naming the violated bound.
C4_RangeReasonInEveryState ==
    \A o \in Orders :
        LET v     == validate_order(Ledger, o)
            value == o.quantity * o.price
        IN  /\ v.ok => (config.min_order_value <= value /\ value <= config.max_order_value)
            /\ value < config.min_order_value => (~v.ok /\ v.reason = "min_order_value")
            /\ value > config.max_order_value => (~v.ok /\ v.reason = "max_order_value")

\* C4 amended: validate_order accepts only orders whose value lies within
\* [min_order_value, max_order_value]; an order outside that range is always
\* rejected, and while the ledger is not emergency-stopped the reason names
\* the violated bound (the minimum when below, the maximum when above) and
\* names a bound only then; while it is stopped the reason is the emergency
\* stop.
C4_RangeReasonUnlessStopped ==
    \A o \in Orders :
        LET v     == validate_order(Ledger, o)
            value == o.quantity * o.price
        IN  /\ v.ok => (config.min_order_value <= value /\ value <= config.max_order_value)
            /\ (value < config.min_order_value \/ value > config.max_order_value) => ~v.ok
            /\ ~emergency_stop =>
                 /\ (v.reason = "min_order_value") <=> (value < config.min_order_value)
                 /\ (v.reason = "max_order_value") <=> (value > config.max_order_value)
            /\ emergency_stop => v.reason = "emergency_stop"

\* C4 witness: in a ledger that is not stopped, an order above
\* max_order_value has been rejected with the reason naming the maximum.
C4_Witness ==
    /\ ~emergency_stop
    /\ ret = Return("validate_order", FALSE, "max_order_value")

-----------------------------------------------------------------------------
(* The ledger with its stop levels, on one date (SpecStops) *)

NextStops ==
    \/ \E s \in Symbols, level \in StopLossLevels : SetStopLoss(s, level)
    \/ \E s \in Symbols, level \in TakeProfitLevels : SetTakeProfit(s, level)
    \/ \E s \in Symbols, cost \in CostPrices : SetStopsFromCost(s, cost)
    \/ \E trade \in TradeInputs(Len(trade_log) + 1, now) : RecordTrade(trade)
    \/ \E o \in LedgerOrders : ValidateOrder(o)
    \/ EmergencyStop
    \/ ResumeTrading
    \/ Restart

SpecStops == Init /\ [][NextStops]_vars

\* What a validate_order call may read and, as claimed, must not change.
ledger_state ==
    <<emergency_stop, daily_stats, position_stops, last_order_time, trade_log, state_file>>

\* C5 as claimed: a validate_order call changes nothing of the ledger: not the
\* flag, not the DailyStats map (its date keys included), not the stop
\* levels, the last-order timestamps, the trade log or the state file.
C5_ValidateChangesNothing ==
    [][(\E o \in LedgerOrders : ValidateOrder(o)) => UNCHANGED ledger_state]_vars

\* C5 amended: a validate_order call leaves the flag, the stop levels, the
\* last-order timestamps, the trade log and the state file unchanged and
\* changes no existing DailyStats entry; the one thing it may do is add an
\* all-zero entry for today when there is none; and every order gets the
\* same verdict after the call as before it.
C5_ValidateOnlyAddsZeroEntry ==
    [][(\E o \in LedgerOrders : ValidateOrder(o)) =>
          /\ UNCHANGED <<emergency_stop, position_stops, last_order_time, trade_log,
                         state_file>>
          /\ DOMAIN daily_stats \subseteq DOMAIN daily_stats'
          /\ DOMAIN daily_stats' \subseteq DOMAIN daily_stats \cup {Today}
          /\ \A d \in DOMAIN daily_stats : daily_stats'[d] = daily_stats[d]
          /\ \A d \in DOMAIN daily_stats' \ DOMAIN daily_stats : daily_stats'[d] = ZeroStats
          /\ \A o \in LedgerOrders :
                /\ validate_order(LedgerNext, o).ok = validate_order(Ledger, o).ok
                /\ validate_order(LedgerNext, o).reason = validate_order(Ledger, o).reason
      ]_vars

\* C5 witness: an accepted validate_order call has left a zero entry for
\* today that the state file, written before by a stop-level update, does
\* not hold.
C5_Witness ==
    /\ ret = Return("validate_order", TRUE, "ok")
    /\ Today \in DOMAIN daily_stats
    /\ daily_stats[Today] = ZeroStats
    /\ position_stops # EmptyMap
    /\ state_file # None
    /\ Today \notin DOMAIN LoadedState(state_file).daily_stats

\* C7: when record_trade, set_stop_loss, set_take_profit or
\* set_stops_from_cost has returned, a ledger loaded from risk_state.json has
\* the DailyStats and the stop levels this ledger has in memory.
C7_SaveLoadRoundTrip ==
    ret.op \in {"record_trade", "set_stop_loss", "set_take_profit", "set_stops_from_cost"}
        => /\ state_file # None
           /\ LoadedState(state_file).daily_stats = daily_stats
           /\ LoadedState(state_file).position_stops = position_stops

\* C7 witness: a trade with a realized loss has just been recorded while one
\* symbol holds both levels and the other a stop loss only.
C7_Witness ==
    /\ ret.op = "record_trade"
    /\ StatsOf(Today).realized_pnl < 0
    /\ StatsOf(Today).trade_count = 2
    /\ \E s \in DOMAIN position_stops : DOMAIN position_stops[s] = {"stop_loss", "take_profit"}
    /\ \E s \in DOMAIN position_stops : DOMAIN position_stops[s] = {"stop_loss"}

-----------------------------------------------------------------------------
(* Trader: the order gateway (SpecGateway) *)

\* round(price, 2) of a price given in 1/10 cent, in cents.  The prices used
\* are no exact ties.
round2(price) == (price + 5) \div 10

\* The arguments of one Trader.submit_order call, with what get_total_balance
\* and get_positions return during it.
Request(symbol, side, quantity, price, skip_risk_check, set_stops, account_balance, positions) ==
    [ symbol |-> symbol, side |-> side, quantity |-> quantity, price |-> price,
      skip_risk_check |-> skip_risk_check, set_stops |-> set_stops,
      account_balance |-> account_balance, positions |-> positions ]

\* What submit_order works on: the ledger's fields, its two files and the
\* orders handed to the broker.
GatewayState ==
    [ emergency_stop |-> emergency_stop, daily_stats |-> daily_stats,
      last_order_time |-> last_order_time, position_stops |-> position_stops,
      trade_log |-> trade_log, broker_orders |-> broker_orders,
      state_file |-> state_file, status |-> "", reason |-> "" ]

\* The gateway state of a process that has just built its Trader.
ConstructedState ==
    LET st == LoadedState(state_file)
    IN  [ GatewayState EXCEPT !.emergency_stop = st.emergency_stop,
                              !.daily_stats = st.daily_stats,
                              !.position_stops = st.position_stops,
                              !.last_order_time = EmptyMap ]

\* The order as trade_ctx.submit_order receives it, with the call's
\* skip_risk_check and the validate_order call that preceded it, if any.
BrokerOrder(r, price, validated) ==
    [ symbol |-> r.symbol, side |-> r.side, quantity |-> r.quantity, price |-> price,
      skip_risk_check |-> r.skip_risk_check, validated |-> validated ]

\* submit_order continuing to the broker whatever validate_order answered.
Submitted_IgnoresVerdict(G, r, response) ==
    LET price      == IF r.price = None THEN None ELSE Some(round2(r.price[1]))
        price_or_0 == IF price = None THEN 0 ELSE price[1]
        o  == Order(r.symbol, r.side, r.quantity, price_or_0, r.account_balance, r.positions)
        L  == [ config |-> config, emergency_stop |-> G.emergency_stop,
                daily_stats |-> G.daily_stats, last_order_time |-> G.last_order_time,
                now |-> now ]
        v  == validate_order(L, o)
        validated == IF r.skip_risk_check THEN None
                     ELSE Some([ symbol |-> o.symbol, side |-> o.side,
                                 quantity |-> o.quantity, price |-> o.price, ok |-> v.ok ])
        checked == IF r.skip_risk_check THEN G.daily_stats ELSE v.daily_stats
        status == IF dry_run THEN "dry_run"
                  ELSE IF response THEN "submitted" ELSE "error"
        reason == IF status = "dry_run" THEN "dry_run"
                  ELSE IF status = "submitted" THEN "" ELSE "broker_error"
        order_id == IF status = "submitted" THEN Some(Len(G.broker_orders) + 1) ELSE None
        trade == TradeRecord(Len(G.trade_log) + 1, now, r.symbol, r.side, r.quantity,
                             price_or_0, order_id, status, reason, None)
        stats == RecordedDailyStats(checked, Today, trade)
        stops == IF /\ status \in {"dry_run", "submitted"}
                    /\ r.set_stops /\ r.side = "buy" /\ price_or_0 # 0
                 THEN StopsFromCost(G.position_stops, config, r.symbol, price_or_0)
                 ELSE G.position_stops
    IN  [ emergency_stop  |-> G.emergency_stop,
          daily_stats     |-> stats,
          last_order_time |-> RecordedOrderTime(G.last_order_time, now, trade),
          position_stops  |-> stops,
          trade_log       |-> Append(G.trade_log, trade),
          broker_orders   |-> IF status \in {"submitted", "error"}
                              THEN Append(G.broker_orders, BrokerOrder(r, price, validated))
                              ELSE G.broker_orders,
          state_file      |-> SavedState(G.emergency_stop, stats, stops),
          status          |-> status,
          reason          |-> reason ]

\* Trader.submit_order: round the price; unless skip_risk_check, validate and
\* on a rejection record it and return; in dry-run record and return;
\* otherwise hand the order to the broker and record "submitted", or "error"
\* when the broker call raises; after a dry-run or submitted buy with a
\* price, set the stop levels.  response is whether the broker call returns.
Submitted(G, r, response) ==
    LET price      == IF r.price = None THEN None ELSE Some(round2(r.price[1]))
        price_or_0 == IF price = None THEN 0 ELSE price[1]
        o  == Order(r.symbol, r.side, r.quantity, price_or_0, r.account_balance, r.positions)
        L  == [ config |-> config, emergency_stop |-> G.emergency_stop,
                daily_stats |-> G.daily_stats, last_order_time |-> G.last_order_time,
                now |-> now ]
        v  == validate_order(L, o)
        validated == IF r.skip_risk_check THEN None
                     ELSE Some([ symbol |-> o.symbol, side |-> o.side,
                                 quantity |-> o.quantity, price |-> o.price, ok |-> v.ok ])
        checked == IF r.skip_risk_check THEN G.daily_stats ELSE v.daily_stats
        status == IF ~r.skip_risk_check /\ ~v.ok THEN "rejected"
                  ELSE IF dry_run THEN "dry_run"
                  ELSE IF response THEN "submitted" ELSE "error"
        reason == IF status = "rejected" THEN v.reason
                  ELSE IF status = "dry_run" THEN "dry_run"
                  ELSE IF status = "submitted" THEN "" ELSE "broker_error"
        order_id == IF status = "submitted" THEN Some(Len(G.broker_orders) + 1) ELSE None
        trade == TradeRecord(Len(G.trade_log) + 1, now, r.symbol, r.side, r.quantity,
                             price_or_0, order_id, status, reason, None)
        stats == RecordedDailyStats(checked, Today, trade)
        stops == IF /\ status \in {"dry_run", "submitted"}
                    /\ r.set_stops /\ r.side = "buy" /\ price_or_0 # 0
                 THEN StopsFromCost(G.position_stops, config, r.symbol, price_or_0)
                 ELSE G.position_stops
    IN  [ emergency_stop  |-> G.emergency_stop,
          daily_stats     |-> stats,
          last_order_time |-> RecordedOrderTime(G.last_order_time, now, trade),
          position_stops  |-> stops,
          trade_log       |-> Append(G.trade_log, trade),
          broker_orders   |-> IF status \in {"submitted", "error"}
                              THEN Append(G.broker_orders, BrokerOrder(r, price, validated))
                              ELSE G.broker_orders,
          state_file      |-> SavedState(G.emergency_stop, stats, stops),
          status          |-> status,
          reason          |-> reason ]

\* The variables take the fields of a gateway state.
Becomes(G) ==
    /\ emergency_stop'  = G.emergency_stop
    /\ daily_stats'     = G.daily_stats
    /\ last_order_time' = G.last_order_time
    /\ position_stops'  = G.position_stops
    /\ trade_log'       = G.trade_log
    /\ broker_orders'   = G.broker_orders
    /\ state_file'      = G.state_file

\* A strategy run calls submit_order(symbol, side, quantity, price) with the
\* defaults skip_risk_check=False and set_stops=True.
SubmitOrder(r, response) ==
    /\ Len(trade_log) < MaxTrades
    /\ LET G == Submitted(GatewayState, r, response)
       IN  /\ Becomes(G)
           /\ ret' = Return("submit_order", G.status \in {"dry_run", "submitted"}, G.reason)
    /\ UNCHANGED <<voter_vars, config, now, dry_run, session_start>>

\* check_position_risk: the position at the current price (in 1/10 cent),
\* with the stored stop levels or, without them, the levels the cost price
\* gives (in 1/100 cent).
check_position_risk(stops, cfg, pos, current_price) ==
    LET stored == IF pos.symbol \in DOMAIN stops THEN stops[pos.symbol] ELSE EmptyMap
        stop_loss_price   == IF "stop_loss" \in DOMAIN stored THEN stored["stop_loss"]
                             ELSE StopLossFromCost(cfg, pos.cost_price)
        take_profit_price == IF "take_profit" \in DOMAIN stored THEN stored["take_profit"]
                             ELSE TakeProfitFromCost(cfg, pos.cost_price)
    IN  [ symbol |-> pos.symbol, quantity |-> pos.quantity, cost_price |-> pos.cost_price,
          current_price |-> current_price,
          stop_loss_price |-> stop_loss_price, take_profit_price |-> take_profit_price,
          should_stop_loss   |-> current_price * 10 <= stop_loss_price,
          should_take_profit |-> current_price * 10 >= take_profit_price ]

\* quotes.get(symbol, 0)
QuoteOf(quotes, symbol) == IF symbol \in DOMAIN quotes THEN quotes[symbol] ELSE 0

RECURSIVE scan_positions_for_exit(_, _, _, _)
\* scan_positions_for_exit: the positions with a quote that are at or past
\* one of their levels, in the order of the positions.
scan_positions_for_exit(stops, cfg, positions, quotes) ==
    IF positions = <<>> THEN <<>>
    ELSE LET pos  == Head(positions)
             rest == scan_positions_for_exit(stops, cfg, Tail(positions), quotes)
             risk == check_position_risk(stops, cfg, pos, QuoteOf(quotes, pos.symbol))
         IN  IF QuoteOf(quotes, pos.symbol) <= 0 THEN rest
             ELSE IF risk.should_stop_loss \/ risk.should_take_profit
                  THEN <<risk>> \o rest
                  ELSE rest

\* The closing order of an exit: a sell of the whole position at the current
\* price with skip_risk_check=True and set_stops=False.
ClosingRequest(symbol, quantity, current_price) ==
    Request(symbol, "sell", quantity, Some(current_price), TRUE, FALSE, 0, <<>>)

RECURSIVE ExecutedExits(_, _, _, _)
\* The loop over the exits: one submit_order per exit, from the i-th on.
ExecutedExits(G, exits, responses, i) ==
    IF i > Len(exits) THEN G
    ELSE ExecutedExits(Submitted(G, ClosingRequest(exits[i].symbol, exits[i].quantity,
                                                   exits[i].current_price), responses[i]),
                       exits, responses, i + 1)

\* Trader.check_and_execute_stops(quotes); the broker answers each order.
CheckAndExecuteStops(positions, quotes) ==
    LET exits == scan_positions_for_exit(position_stops, config, positions, quotes)
    IN  /\ Len(trade_log) + Len(exits) <= MaxTrades
        /\ \E responses \in [1 .. Len(exits) -> BOOLEAN] :
              Becomes(ExecutedExits(GatewayState, exits, responses, 1))
        /\ ret' = Return("check_and_execute_stops", TRUE, "")
        /\ UNCHANGED <<voter_vars, config, now, dry_run, session_start>>

RECURSIVE SelectExits(_, _, _)
\* The positions with a quote for which the exit voter decided to exit, as
\* monitor_smart_stops filters them; the decision is an input here.
SelectExits(positions, quotes, decided) ==
    IF positions = <<>> THEN <<>>
    ELSE LET pos  == Head(positions)
             rest == SelectExits(Tail(positions), quotes, decided)
         IN  IF QuoteOf(quotes, pos.symbol) > 0 /\ pos.symbol \in decided
             THEN << [ symbol |-> pos.symbol, quantity |-> pos.quantity,
                       current_price |-> QuoteOf(quotes, pos.symbol) ] >> \o rest
             ELSE rest

\* monitor_smart_stops.monitor_and_execute, not report_only: a process of
\* its own, which builds its Trader and submits one closing order per exit.
MonitorAndExecute(positions, quotes, decided) ==
    LET exits == SelectExits(positions, quotes, decided)
    IN  /\ Len(trade_log) + Len(exits) <= MaxTrades
        /\ \E responses \in [1 .. Len(exits) -> BOOLEAN] :
              Becomes(ExecutedExits(ConstructedState, exits, responses, 1))
        /\ session_start' = Len(trade_log)
        /\ ret' = Return("monitor_and_execute", TRUE, "")
        /\ UNCHANGED <<voter_vars, config, now, dry_run>>

\* The orders strategies submit: for AAPL a buy and a sell of ten shares at
\* a price, a buy of 600 shares, above max_order_value, and a sell without a
\* price; for TSLA a buy of ten shares.
GatewayRequests ==
    { Request("AAPL", o[1], o[2], o[3], FALSE, TRUE, 10000000, <<>>) :
        o \in { <<"buy", 10, Some(100004)>>, <<"sell", 10, Some(100000)>>,
                <<"buy", 600, Some(100000)>>, <<"sell", 10, None>> } }
    \cup { Request("TSLA", "buy", 10, Some(100004), FALSE, TRUE, 10000000, <<>>) }

\* The positions the broker reports to the stop monitors: none, or AAPL and
\* TSLA.
GatewayPositions ==
    { <<>>,
      << Position("AAPL", 300, 10000, 3450000), Position("TSLA", 200, 25000, 4500000) >> }

\* A gateway process starts in live or in dry-run mode over an empty data
\* directory.
InitGateway ==
    /\ config = DefaultConfig
    /\ now = 0
    /\ emergency_stop = FALSE
    /\ daily_stats = EmptyMap
    /\ last_order_time = EmptyMap
    /\ position_stops = EmptyMap
    /\ state_file = None
    /\ trade_log = <<>>
    /\ dry_run \in BOOLEAN
    /\ broker_orders = <<>>
    /\ session_start = 0
    /\ smart_config = DefaultSmartConfig
    /\ atr_cache = EmptyMap
    /\ market_cache = EmptyMap
    /\ in_flight = NoCalls
    /\ peer = None
    /\ ret = Return("init", TRUE, "")

NextGateway ==
    \/ \E r \in GatewayRequests, response \in BOOLEAN : SubmitOrder(r, response)
    \/ \E positions \in GatewayPositions, quotes \in QuoteBoards :
          CheckAndExecuteStops(positions, quotes)
    \/ \E positions \in GatewayPositions, quotes \in QuoteBoards, decided \in SUBSET Symbols :
          MonitorAndExecute(positions, quotes, decided)
    \/ EmergencyStop
    \/ ResumeTrading
    \/ Restart

SpecGateway == InitGateway /\ [][NextGateway]_vars

\* The broker order was preceded, in its submit_order call, by a
\* validate_order call for the same symbol, side, quantity and price that
\* answered ok.
ValidatedOk(b) ==
    /\ b.validated # None
    /\ b.validated[1].ok
    /\ b.validated[1].symbol = b.symbol
    /\ b.validated[1].side = b.side
    /\ b.validated[1].quantity = b.quantity
    /\ b.validated[1].price = (IF b.price = None THEN 0 ELSE b.price[1])

\* C2 as claimed: every order handed to the broker, by submit_order,
\* check_and_execute_stops or the smart-stop monitor, was first passed to
\* validate_order with the same symbol, side, quantity and price and got
\* ok = true.
C2_EveryBrokerOrderValidated ==
    \A i \in 1 .. Len(broker_orders) : ValidatedOk(broker_orders[i])

\* C2 amended: an order handed to the broker either was first passed to
\* validate_order with the same symbol, side, quantity and price and got
\* ok = true, or is a closing sell submitted with skip_risk_check=True, which
\* no validate_order call precedes; and the orders submitted with
\* skip_risk_check=True are exactly those of check_and_execute_stops and of
\* the smart-stop monitor.
C2_ValidatedUnlessClosingSell ==
    /\ [](\A i \in 1 .. Len(broker_orders) :
            IF broker_orders[i].skip_risk_check
            THEN broker_orders[i].side = "sell" /\ broker_orders[i].validated = None
            ELSE ValidatedOk(broker_orders[i]))
    /\ [][\A i \in (Len(broker_orders) + 1) .. Len(broker_orders') :
            broker_orders'[i].skip_risk_check
               <=> ret'.op \in {"check_and_execute_stops", "monitor_and_execute"}]_vars

\* C2 witness: the broker holds an order that passed validation and, handed
\* over by check_and_execute_stops while the emergency stop was set, a closing
\* sell that no validation preceded.
C2_Witness ==
    /\ emergency_stop
    /\ ret.op = "check_and_execute_stops"
    /\ Len(broker_orders) = 2
    /\ ValidatedOk(broker_orders[1])
    /\ broker_orders[2].skip_risk_check
    /\ trade_log[Len(trade_log)].status = "submitted"

-----------------------------------------------------------------------------
(* RiskManager.calculate_position_size (SpecSizing) *)

\* int(a / b) for b > 0: the quotient truncated toward zero.
IntDiv(a, b) == IF a >= 0 THEN a \div b ELSE -((-a) \div b)

\* calculate_position_size(symbol, price, account_balance, risk_pct), with
\* risk_pct in whole percents or None; `risk_pct or ...` takes the config's
\* percentage for None and for 0.  max_value is in 1/100 cent.
calculate_position_size(cfg, price, account_balance, risk_pct) ==
    LET effective_balance == get_effective_balance(cfg, account_balance)
        pct       == IF risk_pct = None \/ risk_pct[1] = 0
                     THEN cfg.max_single_position_pct ELSE risk_pct[1]
        max_value == Min(effective_balance * pct, cfg.max_order_value * 100)
        quantity  == IntDiv(max_value, price * 100)
    IN  IF quantity > 0 THEN quantity ELSE 0

\* Prices ($33, $100, $7,000) and risk percentages handed to
\* calculate_position_size.
SizingPrices == {3300, 10000, 700000}

RiskPcts == {None, Some(0), Some(5), Some(50), Some(-10)}

\* A caller asks for a position size.
CalculatePositionSize(symbol, price, account_balance, risk_pct) ==
    /\ ret' = [ op |-> "calculate_position_size", ok |-> TRUE, reason |-> "",
                symbol |-> symbol, price |-> price, account_balance |-> account_balance,
                risk_pct |-> risk_pct,
                quantity |-> calculate_position_size(config, price, account_balance,
                                                     risk_pct) ]
    /\ UNCHANGED <<voter_vars, config, now, emergency_stop, daily_stats, last_order_time,
                   position_stops, state_file, trade_log, dry_run, broker_orders,
                   session_start>>

\* A ledger built with one of the configs over an empty data directory.
InitSizing ==
    /\ config \in Configs
    /\ now = 0
    /\ emergency_stop = FALSE
    /\ daily_stats = EmptyMap
    /\ last_order_time = EmptyMap
    /\ position_stops = EmptyMap
    /\ state_file = None
    /\ trade_log = <<>>
    /\ dry_run = FALSE
    /\ broker_orders = <<>>
    /\ session_start = 0
    /\ smart_config = DefaultSmartConfig
    /\ atr_cache = EmptyMap
    /\ market_cache = EmptyMap
    /\ in_flight = NoCalls
    /\ peer = None
    /\ ret = Return("init", TRUE, "")

NextSizing ==
    \E symbol \in Symbols, price \in SizingPrices, account_balance \in Balances,
       risk_pct \in RiskPcts :
       CalculatePositionSize(symbol, price, account_balance, risk_pct)

SpecSizing == InitSizing /\ [][NextSizing]_vars

\* C11: the quantity calculate_position_size returns is
\* max(0, floor(min(effective_balance * risk_pct, max_order_value) / price))
\* for every supplied risk_pct, with max_single_position_pct in its place
\* only when risk_pct is omitted, and quantity * price <= max_order_value.
C11_SizeIsTheFormula ==
    ret.op = "calculate_position_size" =>
        LET pct == IF ret.risk_pct = None THEN config.max_single_position_pct
                   ELSE ret.risk_pct[1]
            max_value == Min(get_effective_balance(config, ret.account_balance) * pct,
                             config.max_order_value * 100)
            floored   == max_value \div (ret.price * 100)
        IN  /\ ret.quantity = (IF floored > 0 THEN floored ELSE 0)
            /\ ret.quantity * ret.price <= config.max_order_value

-----------------------------------------------------------------------------
(* SmartStopManager: the three votes *)

\* In the runs of the exit voter the clock counts half hours since midnight.
MinutesPerTick == 30

\* datetime.now().hour and .minute
Hour(t) == ((t * MinutesPerTick) \div 60) % 24

Minute(t) == (t * MinutesPerTick) % 60

\* StopDecision
HOLD == "hold"

STOP_LOSS == "stop_loss"

TAKE_PROFIT == "take_profit"

\* A candle of get_kline_df.
Candle(high, low, close) == [high |-> high, low |-> low, close |-> close]

\* tr = max(high - low, |high - prev_close|, |low - prev_close|) of candle i.
TrueRange(candles, i) ==
    Max({ candles[i].high - candles[i].low,
          Abs(candles[i].high - candles[i - 1].close),
          Abs(candles[i].low - candles[i - 1].close) })

RECURSIVE SumTrueRange(_, _)
\* sum(tr_list[-period:]): the true ranges of the candles from the i-th on.
SumTrueRange(candles, i) ==
    IF i > Len(candles) THEN 0
    ELSE TrueRange(candles, i) + SumTrueRange(candles, i + 1)

\* calculate_atr past the cache: fetched is None when get_kline_df raises,
\* else <<candles>>; 0 on a failure and on fewer than period + 1 candles.
AtrOfFetch(cfg, fetched) ==
    IF fetched = None THEN 0
    ELSE IF Len(fetched[1]) < cfg.atr_period + 1 THEN 0
    ELSE SumTrueRange(fetched[1], Len(fetched[1]) - cfg.atr_period + 1) \div cfg.atr_period

\* The cached ATR of a symbol is used for one hour.
AtrCacheValid(cache, symbol, t) ==
    symbol \in DOMAIN cache /\ (t - cache[symbol].time) * MinutesPerTick < 60

\* calculate_atr(symbol): the value returned.
calculate_atr(cfg, cache, symbol, fetched, t) ==
    IF AtrCacheValid(cache, symbol, t) THEN cache[symbol].atr
    ELSE AtrOfFetch(cfg, fetched)

\* calculate_atr(symbol): _atr_cache after the call; only an ATR computed
\* from enough candles is cached.
CachedAtr(cfg, cache, symbol, fetched, t) ==
    IF \/ AtrCacheValid(cache, symbol, t)
       \/ fetched = None
       \/ Len(fetched[1]) < cfg.atr_period + 1
    THEN cache
    ELSE [s \in DOMAIN cache \cup {symbol} |->
             IF s = symbol THEN [atr |-> AtrOfFetch(cfg, fetched), time |-> t]
             ELSE cache[s]]

\* get_adaptive_stop_loss without the min_stop_pct and max_stop_pct limits.
get_adaptive_stop_loss_Unclamped(cfg, atr, cost_price) ==
    IF atr <= 0 THEN cost_price * 950
    ELSE cost_price * 1000 - atr * cfg.atr_multiplier * 100

\* get_adaptive_stop_loss, in 1/1000 cent: 5% under the cost without an ATR,
\* else the ATR distance kept between min_stop_pct and max_stop_pct.
get_adaptive_stop_loss(cfg, atr, cost_price) ==
    IF atr <= 0 THEN cost_price * 950
    ELSE cost_price * 1000
         - Max({ cfg.min_stop_pct * cost_price * 10,
                 Min(cfg.max_stop_pct * cost_price * 10, atr * cfg.atr_multiplier * 100) })

\* pnl_pct >= take_profit_pct
ReachedTakeProfit(cfg, cost_price, current_price) ==
    (current_price - cost_price) * 100 >= cfg.take_profit_pct * cost_price

\* vote_atr_stop
vote_atr_stop(cfg, atr, cost_price, current_price) ==
    IF ReachedTakeProfit(cfg, cost_price, current_price) THEN TAKE_PROFIT
    ELSE IF current_price * 1000 <= get_adaptive_stop_loss(cfg, atr, cost_price)
         THEN STOP_LOSS
         ELSE HOLD

\* is_near_market_close with the whole hour from 3:00 counted in.
is_near_market_close_WholeHours(t) == Hour(t) \in {3, 4, 5}

\* is_near_market_close: 3:30 to 5:30.
is_near_market_close(t) ==
    \/ Hour(t) = 3 /\ Minute(t) >= 30
    \/ Hour(t) = 4
    \/ Hour(t) = 5 /\ Minute(t) <= 30

\* vote_close_only voting at any time of the day.
vote_close_only_AtAnyTime(cfg, t, cost_price, current_price, force_check) ==
    IF ReachedTakeProfit(cfg, cost_price, current_price) THEN TAKE_PROFIT
    ELSE IF current_price * 100 <= cost_price * 92 THEN STOP_LOSS
    ELSE HOLD

\* vote_close_only
vote_close_only(cfg, t, cost_price, current_price, force_check) ==
    LET is_close_time == is_near_market_close(t) \/ force_check
    IN  IF ~is_close_time /\ cfg.use_close_only THEN HOLD
        ELSE IF ReachedTakeProfit(cfg, cost_price, current_price) THEN TAKE_PROFIT
        ELSE IF current_price * 100 <= cost_price * 92 THEN STOP_LOSS
        ELSE HOLD

\* The cached benchmark change is used for five minutes.
MarketCacheValid(cache, benchmark, t) ==
    benchmark \in DOMAIN cache /\ (t - cache[benchmark].time) * MinutesPerTick < 5

\* get_market_change, in basis points: fetched is None when the quote fetch
\* raises or returns nothing, else <<change>>.
get_market_change(cache, benchmark, fetched, t) ==
    IF MarketCacheValid(cache, benchmark, t) THEN cache[benchmark].change
    ELSE IF fetched = None THEN 0 ELSE fetched[1]

\* get_market_change: _market_cache after the call.
CachedMarket(cache, benchmark, fetched, t) ==
    IF MarketCacheValid(cache, benchmark, t) \/ fetched = None THEN cache
    ELSE [b \in DOMAIN cache \cup {benchmark} |->
             IF b = benchmark THEN [change |-> fetched[1], time |-> t] ELSE cache[b]]

\* vote_relative_market without its take-profit branch.
vote_relative_market_NoTakeProfit(cfg, market_change, cost_price, current_price) ==
    LET adjusted_stop == IF market_change < 0
                         THEN Min(5000 + Abs(market_change) * cfg.market_drop_buffer,
                                  cfg.max_stop_pct * 1000)
                         ELSE 5000
    IN  IF (current_price - cost_price) * 100000 - market_change * 10 * cost_price
              < -(adjusted_stop * cost_price)
        THEN STOP_LOSS
        ELSE HOLD

\* vote_relative_market.  adjusted_stop is in 1/10 basis point: 5%, widened
\* by the market's fall times market_drop_buffer up to max_stop_pct.
vote_relative_market(cfg, market_change, cost_price, current_price) ==
    LET adjusted_stop == IF market_change < 0
                         THEN Min(5000 + Abs(market_change) * cfg.market_drop_buffer,
                                  cfg.max_stop_pct * 1000)
                         ELSE 5000
    IN  IF ReachedTakeProfit(cfg, cost_price, current_price) THEN TAKE_PROFIT
        ELSE IF (current_price - cost_price) * 100000 - market_change * 10 * cost_price
                   < -(adjusted_stop * cost_price)
             THEN STOP_LOSS
             ELSE HOLD

\* The number of votes for a decision.
CountVotes(votes, decision) == Cardinality({i \in DOMAIN votes : votes[i] = decision})

\* evaluate with the first vote deciding whenever it is not a hold.
FinalDecision_FirstVoteDecides(cfg, votes) ==
    IF votes[1] # HOLD THEN votes[1]
    ELSE IF CountVotes(votes, STOP_LOSS) >= cfg.vote_threshold THEN STOP_LOSS
    ELSE HOLD

\* evaluate, the decision logic over the three votes.
FinalDecision(cfg, votes) ==
    IF CountVotes(votes, TAKE_PROFIT) >= cfg.vote_threshold THEN TAKE_PROFIT
    ELSE IF CountVotes(votes, STOP_LOSS) >= cfg.vote_threshold THEN STOP_LOSS
    ELSE HOLD

\* evaluate: the three votes, in the order of the list.
Votes(cfg, atr, market_change, t, cost_price, current_price, force_close_check) ==
    << vote_atr_stop(cfg, atr, cost_price, current_price),
       vote_close_only(cfg, t, cost_price, current_price, force_close_check),
       vote_relative_market(cfg, market_change, cost_price, current_price) >>

-----------------------------------------------------------------------------
(* SmartStopManager.evaluate (SpecVoter) *)

\* The times of the evaluations: 3:00 and 3:30.
ClockTimes == {6, 7}

\* smart_stop_config.json with use_close_only switched off.
UngatedSmartConfig == [DefaultSmartConfig EXCEPT !.use_close_only = FALSE]

\* smart_stop_config.json with one vote enough for a decision.
EagerSmartConfig == [DefaultSmartConfig EXCEPT !.vote_threshold = 1]

SmartConfigs == {DefaultSmartConfig, UngatedSmartConfig, EagerSmartConfig}

\* market_benchmark
Benchmark == "SPY.US"

\* n daily candles closing at 100.00 with a range of r cents each, the last
\* but one with half the range and the last one gapping down: every true
\* range is r but the last two, r/2 and 3r/2, so the ATR of 14 of them is r.
Candles(n, r) ==
    [i \in 1 .. n |->
        IF i = n THEN Candle(10000 - r \div 2, 10000 - (3 * r) \div 2, 10000 - r)
        ELSE IF i = n - 1 THEN Candle(10000 + r \div 2, 10000, 10000)
        ELSE Candle(10000 + r, 10000, 10000)]

\* What get_kline_df gives for a symbol: an error, too few candles, or the
\* symbol's candles of the day (AAPL quiet or moderate, TSLA volatile).
KlineFetches(symbol) ==
    IF symbol = "AAPL" THEN {None, Some(Candles(15, 40)), Some(Candles(15, 200))}
    ELSE {Some(Candles(3, 200)), Some(Candles(24, 800))}

\* What the benchmark quote gives, in basis points: nothing, flat, 3% down.
MarketFetches == {None, Some(0), Some(-300)}

\* Quotes of the evaluated position.
VoterPrices == {8400, 9200, 9500, 9750, 11500}

\* cost_price and quote of the evaluated position, in cents; a position can
\* come without a cost.
VoterPositions == ({10000} \X VoterPrices) \cup {<<0, 9500>>}

\* evaluate raises ZeroDivisionError in vote_atr_stop when cost_price is 0.
EvaluateRaises(cost_price) == cost_price = 0

\* SmartStopResult
SmartStopResult(cfg, atr, market_change, t, cost_price, current_price, force_close_check) ==
    LET votes == Votes(cfg, atr, market_change, t, cost_price, current_price, force_close_check)
    IN  [votes |-> votes, final_decision |-> FinalDecision(cfg, votes)]

\* evaluate keeping, next to the cached ATR, the highest price seen.
Evaluate_KeepsHighestPrice(symbol, cost_price, current_price, force_close_check, klines, quote) ==
    LET atr    == calculate_atr(smart_config, atr_cache, symbol, klines, now)
        seen   == IF symbol \in DOMAIN atr_cache /\ "highest_price" \in DOMAIN atr_cache[symbol]
                  THEN atr_cache[symbol].highest_price ELSE 0
        result == SmartStopResult(smart_config, atr, 0, now, cost_price, current_price, force_close_check)
    IN  /\ ~EvaluateRaises(cost_price)
        /\ atr_cache' = [s \in DOMAIN atr_cache \cup {symbol} |->
                            IF s = symbol
                            THEN [atr |-> atr, time |-> now, highest_price |-> Max({seen, current_price})]
                            ELSE atr_cache[s]]
        /\ ret' = [ op |-> "evaluate", ok |-> TRUE, reason |-> "",
                    symbol |-> symbol, cost_price |-> cost_price,
                    current_price |-> current_price,
                    force_close_check |-> force_close_check, time |-> now,
                    atr |-> atr, market_change |-> 0,
                    votes |-> result.votes, final_decision |-> result.final_decision ]
        /\ UNCHANGED <<smart_config, market_cache, in_flight, peer, config, now, emergency_stop, daily_stats,
                       last_order_time, position_stops, state_file, trade_log,
                       dry_run, broker_orders, session_start>>

\* evaluate(symbol, cost_price, current_price, force_close_check); the
\* fetches of one evaluation give one answer each.  A raising evaluation has
\* already been through calculate_atr, not yet through get_market_change.
Evaluate(symbol, cost_price, current_price, force_close_check, klines, quote) ==
    LET atr           == calculate_atr(smart_config, atr_cache, symbol, klines, now)
        market_change == get_market_change(market_cache, Benchmark, quote, now)
        raised        == EvaluateRaises(cost_price)
        result        == SmartStopResult(smart_config, atr, market_change, now,
                                         cost_price, current_price, force_close_check)
    IN  /\ atr_cache' = CachedAtr(smart_config, atr_cache, symbol, klines, now)
        /\ market_cache' = IF raised THEN market_cache
                           ELSE CachedMarket(market_cache, Benchmark, quote, now)
        /\ ret' = [ op |-> "evaluate", ok |-> ~raised, reason |-> "",
                    symbol |-> symbol, cost_price |-> cost_price,
                    current_price |-> current_price,
                    force_close_check |-> force_close_check, time |-> now,
                    atr |-> atr, market_change |-> market_change,
                    votes |-> IF raised THEN << >> ELSE result.votes,
                    final_decision |-> IF raised THEN "" ELSE result.final_decision ]
        /\ UNCHANGED <<smart_config, in_flight, peer, config, now, emergency_stop, daily_stats,
                       last_order_time, position_stops, state_file, trade_log,
                       dry_run, broker_orders, session_start>>

\* Time passes between two evaluations.
VoterTick(t) ==
    /\ t > now
    /\ now' = t
    /\ UNCHANGED <<voter_vars, config, emergency_stop, daily_stats, last_order_time,
                   position_stops, state_file, trade_log, dry_run, broker_orders,
                   session_start, ret>>

\* SmartStopManager(config)
InitVoter ==
    /\ smart_config \in SmartConfigs
    /\ now \in ClockTimes
    /\ session_start = now
    /\ atr_cache = EmptyMap
    /\ market_cache = EmptyMap
    /\ in_flight = NoCalls
    /\ peer = None
    /\ config = DefaultConfig
    /\ emergency_stop = FALSE
    /\ daily_stats = EmptyMap
    /\ last_order_time = EmptyMap
    /\ position_stops = EmptyMap
    /\ state_file = None
    /\ trade_log = << >>
    /\ dry_run = TRUE
    /\ broker_orders = << >>
    /\ ret = Return("init", TRUE, "")

NextVoter ==
    \/ \E symbol \in Symbols, p \in VoterPositions, force_close_check \in BOOLEAN :
          \E klines \in KlineFetches(symbol), quote \in MarketFetches :
             Evaluate(symbol, p[1], p[2], force_close_check, klines, quote)
    \/ \E t \in ClockTimes : VoterTick(t)

SpecVoter == InitVoter /\ [][NextVoter]_vars

-----------------------------------------------------------------------------
(* Claims on the exit voter *)

\* An evaluation has just returned a result.
Evaluated == ret.op = "evaluate" /\ ret.ok

\* The number of the three votes of the last result equal to a decision.
VotesFor(decision) == Cardinality({i \in 1 .. 3 : ret.votes[i] = decision})

InCloseWindow(t) ==
    LET m == (t * MinutesPerTick) % 1440 IN m >= 210 /\ m <= 330

\* C13 as stated: with an ATR vote of hold the final decision is a stop-loss
\* exactly when the evaluation is inside the close-time window or forced and
\* both other votes are stop-losses, and a hold in every other case.
C13_BothAuxiliaryVotesInWindow ==
    (Evaluated /\ ret.votes[1] = HOLD) =>
        /\ ret.final_decision \in {STOP_LOSS, HOLD}
        /\ ret.final_decision = STOP_LOSS <=>
              /\ InCloseWindow(ret.time) \/ ret.force_close_check
              /\ ret.votes[2] = STOP_LOSS
              /\ ret.votes[3] = STOP_LOSS

\* C13 amended: with an ATR vote of hold the final decision is a stop-loss
\* exactly when at least vote_threshold of the two other votes are
\* stop-losses, and a hold otherwise; under the defaults (threshold 2,
\* use_close_only on) that is exactly when the evaluation is inside the
\* close-time window or forced and both other votes are stop-losses.
C13_AuxiliaryVotesReachThreshold ==
    (Evaluated /\ ret.votes[1] = HOLD) =>
        /\ ret.final_decision \in {STOP_LOSS, HOLD}
        /\ ret.final_decision = STOP_LOSS <=>
              VotesFor(STOP_LOSS) >= smart_config.vote_threshold
        /\ (smart_config.vote_threshold = 2 /\ smart_config.use_close_only) =>
              (ret.final_decision = STOP_LOSS <=>
                  /\ InCloseWindow(ret.time) \/ ret.force_close_check
                  /\ ret.votes[2] = STOP_LOSS
                  /\ ret.votes[3] = STOP_LOSS)

\* Under the defaults the ATR vote is a hold and the two other votes make
\* the stop-loss, inside the window without force.
C13_Witness ==
    /\ Evaluated
    /\ smart_config = DefaultSmartConfig
    /\ InCloseWindow(ret.time)
    /\ ~ret.force_close_check
    /\ ret.votes = <<HOLD, STOP_LOSS, STOP_LOSS>>
    /\ ret.final_decision = STOP_LOSS

\* C14: an evaluation without force_close_check outside the close-time
\* window never decides a stop-loss.
C14_NoStopLossOutsideWindow ==
    (Evaluated /\ ~ret.force_close_check /\ ~InCloseWindow(ret.time)) =>
        ret.final_decision # STOP_LOSS

FetchedAtrs(symbol) == {AtrOfFetch(smart_config, klines) : klines \in KlineFetches(symbol)}

AtTakeProfit ==
    (ret.current_price - ret.cost_price) * 100 >= smart_config.take_profit_pct * ret.cost_price

\* C16 as stated: with a known ATR and no take-profit the ATR vote is a
\* stop-loss exactly when the price is under cost - atr * atr_multiplier,
\* and a hold otherwise.
C16_StopUnderAtrDistance ==
    (Evaluated /\ ret.atr > 0 /\ ~AtTakeProfit) =>
        /\ ret.votes[1] \in {STOP_LOSS, HOLD}
        /\ ret.votes[1] = STOP_LOSS <=>
              ret.current_price * 10 < ret.cost_price * 10 - ret.atr * smart_config.atr_multiplier

\* atr * atr_multiplier kept between min_stop_pct and max_stop_pct of the
\* cost, in 1/1000 cent.
ClampedStopDistance ==
    LET distance == ret.atr * smart_config.atr_multiplier * 100
        lowest   == smart_config.min_stop_pct * ret.cost_price * 10
        highest  == smart_config.max_stop_pct * ret.cost_price * 10
    IN  IF distance < lowest THEN lowest
        ELSE IF distance > highest THEN highest
        ELSE distance

\* C16 amended: with a known ATR and no take-profit the ATR vote is a
\* stop-loss exactly when the price is at or under the cost less the stop
\* distance, where the distance is atr * atr_multiplier kept between
\* min_stop_pct and max_stop_pct of the cost; it is a hold otherwise.
C16_StopAtClampedAtrDistance ==
    (Evaluated /\ ret.atr > 0 /\ ~AtTakeProfit) =>
        /\ ret.votes[1] \in {STOP_LOSS, HOLD}
        /\ ret.votes[1] = STOP_LOSS <=>
              ret.current_price * 1000 <= ret.cost_price * 1000 - ClampedStopDistance

\* An ATR of 8.00 asks for a distance of 20% and the stop is at 15%: the
\* price of 84.00 is a stop-loss although it is above 80.00.
C16_Witness ==
    /\ Evaluated
    /\ ret.atr * smart_config.atr_multiplier * 10 > smart_config.max_stop_pct * ret.cost_price
    /\ ret.current_price * 10 > ret.cost_price * 10 - ret.atr * smart_config.atr_multiplier
    /\ ret.votes[1] = STOP_LOSS

\* C17: every evaluation of a position with a positive price returns a
\* decision with exactly three votes and does not raise, also when the
\* candles or the benchmark quote cannot be fetched (the ATR and the market
\* change then count as 0).
C17_EvaluationAlwaysResolves ==
    (ret.op = "evaluate" /\ ret.current_price > 0) =>
        /\ ret.ok
        /\ Len(ret.votes) = 3
        /\ \A i \in 1 .. 3 : ret.votes[i] \in {HOLD, STOP_LOSS, TAKE_PROFIT}
        /\ ret.final_decision \in {HOLD, STOP_LOSS, TAKE_PROFIT}

\* C18 as stated: outside the close-time window and without force the
\* close-only vote is a hold, for every cost and price.
C18_HoldOutsideWindow ==
    (Evaluated /\ ~InCloseWindow(ret.time) /\ ~ret.force_close_check) => ret.votes[2] = HOLD

\* What the close-only vote is when it is not gated: a take-profit at the
\* take-profit line, a stop-loss at or under 92% of the cost, else a hold.
UngatedCloseVote(cost_price, current_price) ==
    IF (current_price - cost_price) * 100 >= smart_config.take_profit_pct * cost_price
    THEN TAKE_PROFIT
    ELSE IF current_price * 100 <= cost_price * 92 THEN STOP_LOSS ELSE HOLD

\* C18 amended: while use_close_only is on, the close-only vote is a hold
\* for every cost and price whenever the evaluation is outside the
\* close-time window and not forced; inside the window, when forced, or
\* with use_close_only off it is a take-profit at the take-profit line, a
\* stop-loss at or under 92% of the cost and a hold otherwise.  The second
\* conjunct states the same of the vote at every half hour of the day.
C18_HoldOutsideWindowWhenGated ==
    /\ Evaluated =>
          ret.votes[2] = IF /\ smart_config.use_close_only
                            /\ ~InCloseWindow(ret.time)
                            /\ ~ret.force_close_check
                         THEN HOLD
                         ELSE UngatedCloseVote(ret.cost_price, ret.current_price)
    /\ \A t \in 0 .. 47, current_price \in VoterPrices, force \in BOOLEAN :
          vote_close_only(smart_config, t, 10000, current_price, force)
             = IF smart_config.use_close_only /\ ~InCloseWindow(t) /\ ~force
               THEN HOLD
               ELSE UngatedCloseVote(10000, current_price)

\* At 3:00, unforced and gated, a position at 92% of its cost or under gets
\* a hold from the close-only vote.
C18_Witness ==
    /\ Evaluated
    /\ smart_config.use_close_only
    /\ ~InCloseWindow(ret.time)
    /\ ~ret.force_close_check
    /\ ret.current_price * 100 <= ret.cost_price * 92
    /\ ret.votes[2] = HOLD

-----------------------------------------------------------------------------
(* Trader.submit_order: successive buys (SpecBuys) *)

\* The buys of the strategies, with the defaults skip_risk_check=False and
\* set_stops=True: AAPL at 100.004 and later at 120.00, 600 shares above
\* max_order_value, a market buy without a price; TSLA at 100.004; and a sell
\* of AAPL.
BuyRequests ==
    { Request("AAPL", o[1], o[2], o[3], FALSE, TRUE, 10000000, <<>>) :
        o \in { <<"buy", 10, Some(100004)>>, <<"buy", 10, Some(120000)>>,
                <<"buy", 600, Some(100000)>>, <<"buy", 10, None>>,
                <<"sell", 10, Some(110000)>> } }
    \cup { Request("TSLA", "buy", 10, Some(100004), FALSE, TRUE, 10000000, <<>>) }

NextBuys ==
    \/ \E r \in BuyRequests, response \in BOOLEAN : SubmitOrder(r, response)
    \/ Tick

SpecBuys == InitGateway /\ [][NextBuys]_vars

\* The record of the last submit_order call.
LastTrade == trade_log[Len(trade_log)]

\* The last operation was a buy that the gateway accepted.
AcceptedBuy ==
    /\ ret.op = "submit_order"
    /\ LastTrade.side = "buy"
    /\ LastTrade.status \in {"dry_run", "submitted"}

-----------------------------------------------------------------------------
(* RiskManager over a damaged data directory (SpecLoad) *)

\* risk_state.json is damaged between two processes.
DamageStateFile ==
    /\ state_file \notin {None, Unloadable}
    /\ state_file' = Unloadable
    /\ ret' = Return("damage_state_file", TRUE, "")
    /\ UNCHANGED <<voter_vars, config, now, emergency_stop, daily_stats, last_order_time,
                   position_stops, trade_log, dry_run, broker_orders, session_start>>

\* risk_state.json is removed between two processes.
RemoveStateFile ==
    /\ state_file # None
    /\ state_file' = None
    /\ ret' = Return("remove_state_file", TRUE, "")
    /\ UNCHANGED <<voter_vars, config, now, emergency_stop, daily_stats, last_order_time,
                   position_stops, trade_log, dry_run, broker_orders, session_start>>

NextLoad ==
    \/ \E trade \in TradeInputs(Len(trade_log) + 1, now) : RecordTrade(trade)
    \/ \E o \in LedgerOrders : ValidateOrder(o)
    \/ \E s \in Symbols, level \in StopLossLevels : SetStopLoss(s, level)
    \/ EmergencyStop
    \/ DamageStateFile
    \/ RemoveStateFile
    \/ Restart

SpecLoad == Init /\ [][NextLoad]_vars

\* A ledger has just been constructed over a missing or unloadable file.
ConstructedWithoutState == ret.op = "init" /\ state_file \in {None, Unloadable}

\* C20: a ledger constructed over a missing or unloadable state file is in
\* the default state (not stopped, no statistics, no stop levels, no order
\* times), and its next calls work: validate_order does not answer with the
\* emergency stop and leaves no statistics but zeros for today, record_trade counts
\* its trade as the first of the day and writes a state file that loads.
C20_LoadFailureLeavesDefaults ==
    /\ [](ConstructedWithoutState =>
             /\ ~emergency_stop
             /\ daily_stats = EmptyMap
             /\ position_stops = EmptyMap
             /\ last_order_time = EmptyMap)
    /\ [][ConstructedWithoutState =>
             /\ ret'.op = "validate_order" =>
                   /\ ret'.reason # "emergency_stop"
                   /\ \A d \in DOMAIN daily_stats' : d = Today /\ daily_stats'[d] = ZeroStats
             /\ ret'.op = "record_trade" =>
                   /\ daily_stats'[Today].trade_count = 1
                   /\ state_file' \notin {None, Unloadable}
                   /\ LoadedState(state_file').daily_stats = daily_stats']_vars

\* The state of a ledger with a recorded trade was saved, the file was
\* damaged, and the next process starts from the defaults.
C20_Witness ==
    /\ ConstructedWithoutState
    /\ state_file = Unloadable
    /\ Len(trade_log) > 0
    /\ ~emergency_stop
    /\ daily_stats = EmptyMap

-----------------------------------------------------------------------------
(* Claims on the records of the gateway *)

\* The statuses that TradeRecord names for its status field.
RecordStatuses == {"pending", "filled", "cancelled", "rejected"}

\* trade_log is a prefix of trade_log': records are added at the end and no
\* earlier record is changed or removed.
LogOnlyGrows ==
    /\ Len(trade_log') >= Len(trade_log)
    /\ SubSeq(trade_log', 1, Len(trade_log)) = trade_log

\* C21: the trade log is append-only (every step leaves the earlier records
\* as they are and adds new ones at the end) and every record in it has a
\* status from pending, filled, cancelled, rejected.
C21_AppendOnlyWithKnownStatuses ==
    /\ [][LogOnlyGrows]_vars
    /\ [](\A i \in 1 .. Len(trade_log) : trade_log[i].status \in RecordStatuses)

\* The append-only half of C21 alone.
C21_AppendOnly == [][LogOnlyGrows]_vars

-----------------------------------------------------------------------------
(* Trader.submit_order called by two threads (SpecRace) *)

\* The orders of the two callers: buys and a sell of AAPL, a buy of TSLA.
RaceRequests ==
    { Request("AAPL", "buy", 10, Some(100004), FALSE, TRUE, 10000000, <<>>),
      Request("AAPL", "sell", 10, Some(100000), FALSE, TRUE, 10000000, <<>>),
      Request("TSLA", "buy", 10, Some(100004), FALSE, TRUE, 10000000, <<>>) }

\* The order of a request as validate_order receives it.
OrderOf(r) ==
    Order(r.symbol, r.side, r.quantity,
          IF r.price = None THEN 0 ELSE round2(r.price[1]), r.account_balance, r.positions)

\* submit_order after an accepting risk check, with the check made again on
\* the ledger as it is by then.
Proceeded_ChecksAgain(G, r, response) == Submitted(G, r, response)

\* submit_order after an accepting risk check: what it does from the dry-run
\* test on is what a call with skip_risk_check does; the broker gets the
\* order of the checked call.
Proceeded(G, r, response) ==
    LET P == Submitted(G, [r EXCEPT !.skip_risk_check = TRUE], response)
        o == OrderOf(r)
        validated == Some([ symbol |-> o.symbol, side |-> o.side, quantity |-> o.quantity,
                            price |-> o.price, ok |-> TRUE ])
        price == IF r.price = None THEN None ELSE Some(o.price)
    IN  [P EXCEPT !.broker_orders =
            IF Len(P.broker_orders) > Len(G.broker_orders)
            THEN Append(G.broker_orders, BrokerOrder(r, price, validated))
            ELSE G.broker_orders]

\* The number of calls in flight.
InFlight == Cardinality({c \in Callers : in_flight[c] # None})

\* A caller enters submit_order and runs it to the end of the risk check: a
\* rejected order is recorded and the call returns, an accepted one is in
\* flight.  No lock is held from here to the record.
BeginSubmit(c, r) ==
    /\ in_flight[c] = None
    /\ Len(trade_log) + InFlight < MaxTrades
    /\ LET v == validate_order(Ledger, OrderOf(r))
       IN  IF v.ok
           THEN /\ daily_stats' = v.daily_stats
                /\ in_flight' = [in_flight EXCEPT ![c] = Some(r)]
                /\ ret' = Return("validate_order", TRUE, v.reason)
                /\ UNCHANGED <<emergency_stop, last_order_time, position_stops, trade_log,
                               broker_orders, state_file>>
           ELSE LET G == Submitted(GatewayState, r, FALSE)
                IN  /\ Becomes(G)
                    /\ ret' = Return("submit_order", FALSE, G.reason)
                    /\ UNCHANGED in_flight
    /\ UNCHANGED <<smart_config, atr_cache, market_cache, peer, config, now, dry_run,
                   session_start>>

\* The call in flight goes on: dry-run or broker call, record_trade, stop
\* levels.
CompleteSubmit(c, response) ==
    /\ in_flight[c] # None
    /\ LET G == Proceeded(GatewayState, in_flight[c][1], response)
       IN  /\ Becomes(G)
           /\ ret' = Return("submit_order", G.status \in {"dry_run", "submitted"}, G.reason)
    /\ in_flight' = [in_flight EXCEPT ![c] = None]
    /\ UNCHANGED <<smart_config, atr_cache, market_cache, peer, config, now, dry_run,
                   session_start>>

NextRace ==
    \/ \E c \in Callers, r \in RaceRequests : BeginSubmit(c, r)
    \/ \E c \in Callers, response \in BOOLEAN : CompleteSubmit(c, response)

SpecRace == InitGateway /\ [][NextRace]_vars

\* C22: an order that passed the risk check goes to the broker and into the
\* log as dry_run, submitted or error without a second look at the ledger,
\* also when another call has recorded an order in between and the check
\* would now reject it: the check and the record are not one critical
\* section.  The witness is the interleaving of the claim.
C22_CheckedOrderProceedsWhateverWasRecorded ==
    [][\A c \in Callers :
          (in_flight[c] # None /\ in_flight'[c] = None) =>
              /\ Len(trade_log') = Len(trade_log) + 1
              /\ trade_log'[Len(trade_log')].symbol = in_flight[c][1].symbol
              /\ trade_log'[Len(trade_log')].status \in {"dry_run", "submitted", "error"}
              /\ ~dry_run => Len(broker_orders') = Len(broker_orders) + 1]_vars

\* Two orders for one symbol passed the risk check before either was
\* recorded and both reached the broker at the same time, inside the
\* cooldown that a check after the first record enforces.
C22_Witness ==
    /\ Len(broker_orders) = 2
    /\ Len(trade_log) = 2
    /\ \A i \in 1 .. 2 :
          /\ broker_orders[i].validated # None
          /\ broker_orders[i].validated[1].ok
          /\ trade_log[i].status = "submitted"
          /\ trade_log[i].symbol = trade_log[1].symbol
    /\ trade_log[2].timestamp - trade_log[1].timestamp < config.order_cooldown_seconds
    /\ ~validate_order(Ledger, Order(trade_log[2].symbol, trade_log[2].side, trade_log[2].quantity, trade_log[2].price, 10000000, <<>>)).ok

\* C22, the sequential side: when the calls run one after the other, two
\* accepted orders of one symbol are never closer than the cooldown.
C22_SequentialRunsKeepTheCooldown ==
    \A i, j \in 1 .. Len(trade_log) :
        (/\ i < j
         /\ trade_log[i].symbol = trade_log[j].symbol
         /\ trade_log[i].status \in {"dry_run", "submitted", "error"}
         /\ trade_log[j].status \in {"dry_run", "submitted", "error"})
        => trade_log[j].timestamp - trade_log[i].timestamp >= config.order_cooldown_seconds

-----------------------------------------------------------------------------
(* The stop monitors with report_only (SpecReport) *)

\* What monitor_and_execute returns: the report, or None where the smart
\* monitor returns before it has one, and the list of executed orders, or
\* None where the call returns the report alone.
MonitorReturn(monitor, report, executed) ==
    [ op |-> "monitor_and_execute", ok |-> TRUE, reason |-> "", monitor |-> monitor,
      report_only |-> TRUE, report |-> report, executed |-> executed ]

\* The smart monitor with report_only, had it gone on to its closing orders.
MonitorSmartReportOnly_Executes(positions, quotes, decided) ==
    LET exits == SelectExits(positions, quotes, decided)
    IN  /\ Len(trade_log) + Len(exits) <= MaxTrades
        /\ \E responses \in [1 .. Len(exits) -> BOOLEAN] :
              Becomes(ExecutedExits(ConstructedState, exits, responses, 1))
        /\ session_start' = Len(trade_log)
        /\ ret' = MonitorReturn("monitor_smart_stops",
                                IF positions = <<>> THEN None ELSE Some("report"),
                                Some(<<>>))
        /\ UNCHANGED <<voter_vars, config, now, dry_run>>

\* monitor_smart_stops.monitor_and_execute(report_only=True): a process of
\* its own, which builds its Trader, scans the positions and returns the
\* report with an empty list; without positions it returns None and an
\* empty list.  The decisions of the scan are an input, as in
\* MonitorAndExecute.
MonitorSmartReportOnly(positions, quotes, decided) ==
    /\ Becomes(ConstructedState)
    /\ session_start' = Len(trade_log)
    /\ ret' = MonitorReturn("monitor_smart_stops",
                            IF positions = <<>> THEN None ELSE Some("report"),
                            Some(<<>>))
    /\ UNCHANGED <<voter_vars, config, now, dry_run>>

\* monitor_stops.monitor_and_execute(report_only=True): a process of its
\* own, which builds its Trader, prints get_risk_report and returns the
\* report alone.  generate_risk_report reads today's statistics through
\* _get_daily_stats, which creates the entry in memory when it is absent.
MonitorStopsReportOnly(positions, quotes) ==
    /\ Becomes([ConstructedState EXCEPT
                  !.daily_stats = GetDailyStatsMap(ConstructedState.daily_stats, Today)])
    /\ session_start' = Len(trade_log)
    /\ ret' = MonitorReturn("monitor_stops", Some("report"), None)
    /\ UNCHANGED <<voter_vars, config, now, dry_run>>

\* The orders submitted between the monitor runs: a buy of ten shares of
\* AAPL and one of TSLA, which set stop levels.
ReportRequests ==
    { Request(s, "buy", 10, Some(100004), FALSE, TRUE, 10000000, <<>>) : s \in Symbols }

NextReport ==
    \/ \E r \in ReportRequests, response \in BOOLEAN : SubmitOrder(r, response)
    \/ \E positions \in GatewayPositions, quotes \in QuoteBoards, decided \in SUBSET Symbols :
          MonitorSmartReportOnly(positions, quotes, decided)
    \/ \E positions \in GatewayPositions, quotes \in QuoteBoards :
          MonitorStopsReportOnly(positions, quotes)
    \/ Tick

SpecReport == InitGateway /\ [][NextReport]_vars

\* A monitor run with report_only has just returned.
ReportOnlyReturn ==
    /\ ret'.op = "monitor_and_execute"
    /\ ret'.report_only

\* The run left the files and the broker alone, and the ledger of its
\* process is the one it loaded: the trade counts and the stop levels of
\* risk_state.json, and no last-order times.
ReportOnlyLeavesLedger ==
    /\ trade_log' = trade_log
    /\ broker_orders' = broker_orders
    /\ state_file' = state_file
    /\ emergency_stop' = LoadedState(state_file).emergency_stop
    /\ position_stops' = LoadedState(state_file).position_stops
    /\ last_order_time' = EmptyMap
    /\ \A d \in DOMAIN daily_stats' \cup DOMAIN LoadedState(state_file).daily_stats :
          /\ d \in DOMAIN daily_stats'
          /\ daily_stats'[d] = IF d \in DOMAIN LoadedState(state_file).daily_stats
                               THEN LoadedState(state_file).daily_stats[d]
                               ELSE ZeroStats

\* C23 as stated: in report-only mode the stop monitors submit no order and
\* do not change the risk ledger; monitor_and_execute(report_only=True)
\* returns with an empty list of executed orders, without a submit_order or
\* record_trade call and with the trade counts, the stop levels and the
\* cooldown timestamps unchanged.
C23_ReportOnlyReturnsEmptyList ==
    [][ReportOnlyReturn => /\ ReportOnlyLeavesLedger
                           /\ ret'.executed = Some(<<>>)]_vars

\* C23, amended: in report-only mode the stop monitors submit no order and
\* do not change the risk ledger; monitor_smart_stops returns an empty list
\* of executed orders and monitor_stops returns the report alone, both
\* without a submit_order or record_trade call and with the trade counts,
\* the stop levels and the cooldown timestamps unchanged.
C23_ReportOnlyLeavesLedger ==
    [][ReportOnlyReturn =>
         /\ ReportOnlyLeavesLedger
         /\ ret'.monitor = "monitor_smart_stops" => ret'.executed = Some(<<>>)
         /\ ret'.monitor = "monitor_stops" => ret'.executed = None]_vars

\* A report-only run of the smart monitor has returned over positions it had
\* decided to close, in a process whose state file holds today's trades and
\* stop levels.
C23_Witness ==
    /\ ret.op = "monitor_and_execute"
    /\ ret.report_only
    /\ ret.monitor = "monitor_smart_stops"
    /\ ret.report # None
    /\ trade_log # <<>>
    /\ position_stops # EmptyMap
    /\ Today \in DOMAIN daily_stats
    /\ daily_stats[Today].trade_count > 0

-----------------------------------------------------------------------------
(* SmallCapGrowthStrategy.rank_by_market_cap (SpecRank) *)

\* Market values are whole numbers: in yuan when above RawYiLimit, else
\* already in 亿元 (1e8 yuan).  market_cap_yi and the limits of the config
\* are kept in 1/100 亿元, so a value in yuan is divided by YuanPerCentiYi
\* where the code divides by 100000000.
RawYiLimit == 10000

YuanPerCentiYi == 1000000

CentiYi(yi) == yi * 100

market_cap_yi(market_cap) ==
    IF market_cap > RawYiLimit THEN market_cap \div YuanPerCentiYi ELSE CentiYi(market_cap)

\* dict.get(key): the value, or None.
DictGet(d, key) == IF key \in DOMAIN d THEN Some(d[key]) ELSE None

\* The market value rank_by_market_cap reads for a symbol, or None:
\* market_data.get(symbol, {}).get("float_value" or "total_value").
MarketCapOf(cfg, market_data, symbol) ==
    IF symbol \notin DOMAIN market_data THEN None
    ELSE IF cfg.use_float_value THEN DictGet(market_data[symbol], "float_value")
         ELSE DictGet(market_data[symbol], "total_value")

\* `cfg.max_market_cap and ...`, `cfg.min_market_cap and ...`: a limit of
\* None or 0 filters nothing.
OutsideCapLimits(cfg, cap_yi) ==
    \/ cfg.max_market_cap # None /\ cfg.max_market_cap[1] # 0 /\ cap_yi > cfg.max_market_cap[1]
    \/ cfg.min_market_cap # None /\ cfg.min_market_cap[1] # 0 /\ cap_yi < cfg.min_market_cap[1]

RECURSIVE stocks_with_cap(_, _, _)
\* The loop of rank_by_market_cap: the stocks with a market value inside the
\* limits, in the order of the input, each with market_cap and market_cap_yi.
stocks_with_cap(cfg, stocks, market_data) ==
    IF stocks = <<>> THEN <<>>
    ELSE LET stock == Head(stocks)
             cap   == MarketCapOf(cfg, market_data, stock.symbol)
             rest  == stocks_with_cap(cfg, Tail(stocks), market_data)
         IN  IF cap = None THEN rest
             ELSE IF OutsideCapLimits(cfg, market_cap_yi(cap[1])) THEN rest
             ELSE << [ symbol |-> stock.symbol, market_cap |-> cap[1],
                       market_cap_yi |-> market_cap_yi(cap[1]) ] >> \o rest

RECURSIVE InsertByCap(_, _)
\* x put into a list sorted by market_cap, behind the entries that are not
\* larger.
InsertByCap(sorted, x) ==
    IF sorted = <<>> THEN <<x>>
    ELSE IF Head(sorted).market_cap <= x.market_cap
         THEN <<Head(sorted)>> \o InsertByCap(Tail(sorted), x)
         ELSE <<x>> \o sorted

RECURSIVE SortByCap(_, _)
\* list.sort(key=lambda x: x["market_cap"]): ascending and stable; the
\* entries of list from i on are inserted into sorted.
SortByCap(sorted, list) ==
    IF list = <<>> THEN sorted
    ELSE SortByCap(InsertByCap(sorted, Head(list)), Tail(list))

\* list[:n]: the first n entries, or all but the last -n for a negative n.
SliceTo(list, n) ==
    IF n >= 0 THEN SubSeq(list, 1, Min(n, Len(list)))
    ELSE SubSeq(list, 1, Max({Len(list) + n, 0}))

\* rank_by_market_cap without its sort.
rank_by_market_cap_Unsorted(cfg, stocks, market_data) ==
    SliceTo(stocks_with_cap(cfg, stocks, market_data), cfg.top_n)

\* SmallCapGrowthStrategy.rank_by_market_cap(stocks, market_data).
rank_by_market_cap(cfg, stocks, market_data) ==
    SliceTo(SortByCap(<<>>, stocks_with_cap(cfg, stocks, market_data)), cfg.top_n)

StockSymbols == {"A", "B", "C"}

\* The lists of stocks handed in: none, the three symbols in two orders, and
\* two of them.
StockLists ==
    { <<>>,
      << [symbol |-> "A"], [symbol |-> "B"], [symbol |-> "C"] >>,
      << [symbol |-> "C"], [symbol |-> "A"], [symbol |-> "B"] >>,
      << [symbol |-> "B"], [symbol |-> "A"] >> }

\* The market data of one symbol: 5, 12 and 20 亿元 in yuan, 15 亿元 given in
\* 亿元, or total_value alone.
MarketEntries ==
    { [total_value |-> 1200000000, float_value |-> 500000000],
      [total_value |-> 1200000000, float_value |-> 1200000000],
      [total_value |-> 500000000, float_value |-> 2000000000],
      [total_value |-> 15, float_value |-> 15],
      [total_value |-> 2000000000] }

\* Market data for some of the symbols.
MarketData ==
    UNION { [S -> MarketEntries] : S \in SUBSET StockSymbols }

\* SmallCapConfig: top_n (10 by default), use_float_value, and the limits
\* in 亿元: none, or 10 to 18.
SmallCapConfigs ==
    { [ top_n |-> n, use_float_value |-> f, max_market_cap |-> l[2], min_market_cap |-> l[1] ] :
        n \in {0, 1, 2, 10}, f \in BOOLEAN,
        l \in { <<None, None>>, <<Some(CentiYi(10)), Some(CentiYi(18))>> } }

\* A strategy built with cfg is handed stocks and market_data, and ranks
\* them.
RankByMarketCap ==
    /\ ret.op = "select_stocks"
    /\ ret' = [ ret EXCEPT !.op = "rank_by_market_cap",
                           !.ranked = rank_by_market_cap(ret.cfg, ret.stocks,
                                                         ret.market_data) ]
    /\ UNCHANGED <<voter_vars, config, now, emergency_stop, daily_stats, last_order_time,
                   position_stops, state_file, trade_log, dry_run, broker_orders,
                   session_start>>

\* A strategy of each config, about to rank each list of stocks with each
\* market data; no ledger is involved.
InitRank ==
    /\ config = DefaultConfig
    /\ now = 0
    /\ emergency_stop = FALSE
    /\ daily_stats = EmptyMap
    /\ last_order_time = EmptyMap
    /\ position_stops = EmptyMap
    /\ state_file = None
    /\ trade_log = <<>>
    /\ dry_run = FALSE
    /\ broker_orders = <<>>
    /\ session_start = 0
    /\ smart_config = DefaultSmartConfig
    /\ atr_cache = EmptyMap
    /\ market_cache = EmptyMap
    /\ in_flight = NoCalls
    /\ peer = None
    /\ \E cfg \in SmallCapConfigs, stocks \in StockLists, market_data \in MarketData :
          ret = [ op |-> "select_stocks", ok |-> TRUE, reason |-> "", cfg |-> cfg,
                  stocks |-> stocks, market_data |-> market_data, ranked |-> <<>> ]

NextRank == RankByMarketCap

SpecRank == InitRank /\ [][NextRank]_vars

\* The stock is eligible: it has a market value, inside the limits that are
\* set.
Eligible(cfg, market_data, symbol) ==
    LET cap == MarketCapOf(cfg, market_data, symbol)
    IN  /\ cap # None
        /\ cfg.max_market_cap # None => market_cap_yi(cap[1]) <= cfg.max_market_cap[1]
        /\ cfg.min_market_cap # None => market_cap_yi(cap[1]) >= cfg.min_market_cap[1]

RankedSymbols == { ret.ranked[i].symbol : i \in 1 .. Len(ret.ranked) }

-----------------------------------------------------------------------------
(* Claims on rejected and repeated orders *)

\* submit_order has just returned a rejection of validate_order.
RejectedSubmit ==
    /\ ret'.op = "submit_order"
    /\ ~ret'.ok
    /\ ret'.reason # "broker_error"

TradeCount(stats, d) == IF d \in DOMAIN stats THEN stats[d].trade_count ELSE 0

\* C25: when validate_order rejects an order in submit_order, record_trade
\* is not reached and the ledger is left unchanged: today's trade_count is
\* not incremented and the symbol's last-order time is not updated.
C25_RejectionLeavesLedger ==
    [][RejectedSubmit => /\ trade_log' = trade_log
                         /\ TradeCount(daily_stats', Today) = TradeCount(daily_stats, Today)
                         /\ last_order_time' = last_order_time]_vars


\* The positions the broker reports while no closing order fills.
HeldPositions ==
    << Position("AAPL", 300, 10000, 3450000), Position("TSLA", 200, 25000, 4500000) >>

\* Monitor runs, of either monitor, over positions that stay as they are.
NextRuns ==
    \/ \E quotes \in QuoteBoards : CheckAndExecuteStops(HeldPositions, quotes)
    \/ \E quotes \in QuoteBoards, decided \in SUBSET Symbols :
          MonitorAndExecute(HeldPositions, quotes, decided)
    \/ Tick

SpecRuns == InitGateway /\ [][NextRuns]_vars

RECURSIVE ClosingQuantity(_, _)
\* The shares of symbol in the sell orders of the log that the broker took.
ClosingQuantity(log, symbol) ==
    IF log = <<>> THEN 0
    ELSE (IF /\ Head(log).symbol = symbol
             /\ Head(log).side = "sell"
             /\ Head(log).status = "submitted"
          THEN Head(log).quantity ELSE 0) + ClosingQuantity(Tail(log), symbol)

HeldQuantity(symbol) ==
    LET i == CHOOSE i \in 1 .. Len(HeldPositions) : HeldPositions[i].symbol = symbol
    IN  HeldPositions[i].quantity

\* C26: across successive monitor runs over a position whose closing order
\* has not filled, the closing sell orders submitted for a symbol never add
\* up to more than the quantity held: a later run submits no second closing
\* order for the same shares.
C26_ClosingOrdersWithinHolding ==
    \A symbol \in Symbols : ClosingQuantity(trade_log, symbol) <= HeldQuantity(symbol)


\* C27: whatever orders go through the gateway, no TradeRecord carries a
\* pnl, realized_pnl is 0 on every date, and validate_order rejects no order
\* at the daily-loss check.
C27_GatewayRecordsNoPnl ==
    /\ \A i \in 1 .. Len(trade_log) :
          /\ trade_log[i].pnl = None
          /\ trade_log[i].reason # "daily_loss_limit"
    /\ \A d \in DOMAIN daily_stats : daily_stats[d].realized_pnl = 0
    /\ \A d \in DOMAIN LoadedState(state_file).daily_stats :
          LoadedState(state_file).daily_stats[d].realized_pnl = 0
    /\ \A o \in ProbeOrders : validate_order(Ledger, o).reason # "daily_loss_limit"

\* A stop-loss exit sold 300 shares of AAPL bought at 100.00 for 94.00, a
\* loss of 1,800 on a balance of 100,000 with a daily loss limit of 3%, and a
\* second one followed on the same date; realized_pnl is still 0.
C27_Witness ==
    /\ Len(trade_log) = 2
    /\ \A i \in 1 .. 2 :
          /\ trade_log[i].symbol = "AAPL"
          /\ trade_log[i].side = "sell"
          /\ trade_log[i].status = "submitted"
          /\ trade_log[i].price = 9400
          /\ trade_log[i].quantity = 300
          /\ trade_log[i].timestamp \div DayTicks = Today
    /\ Today \in DOMAIN daily_stats
    /\ daily_stats[Today].sell_value > 0
    /\ daily_stats[Today].realized_pnl = 0

-----------------------------------------------------------------------------
(* Claims on what a new process inherits *)

\* An earlier process recorded a trade of symbol s less than
\* order_cooldown_seconds ago.
RecordedBeforeRestart(s) ==
    \E i \in 1 .. session_start :
        /\ trade_log[i].symbol = s
        /\ now - trade_log[i].timestamp < config.order_cooldown_seconds

\* C28: the last-order times are not in risk_state.json, and in a ledger
\* constructed from the file validate_order rejects no order at the cooldown
\* check for a symbol until this process records a trade of it, even when an
\* earlier process recorded one less than order_cooldown_seconds ago.
C28_CooldownIsProcessLocal ==
    /\ Len(state_file) = 1 => "last_order_time" \notin DOMAIN state_file[1]
    /\ \A s \in Symbols : SessionTimes(s) = {} => s \notin DOMAIN last_order_time
    /\ \A o \in ProbeOrders :
          RecordedBeforeRestart(o.symbol) /\ SessionTimes(o.symbol) = {}
            => validate_order(Ledger, o).reason # "cooldown"

\* Both symbols were traded by the earlier process less than a cooldown ago,
\* the new process has recorded nothing, and an order was just accepted.
C28_Witness ==
    /\ session_start = Len(trade_log)
    /\ \A s \in Symbols : RecordedBeforeRestart(s)
    /\ ret = Return("validate_order", TRUE, "ok")

-----------------------------------------------------------------------------
(* Claims on the take-profit decision *)

\* C29: with a vote threshold of 2, evaluate decides a take-profit exactly
\* when (current_price - cost_price) / cost_price >= take_profit_pct,
\* whatever the ATR, the benchmark change and the time are, and the ATR vote
\* and the market-relative vote are take-profits on exactly that condition.
C29_TakeProfitAtTheLine ==
    (Evaluated /\ smart_config.vote_threshold = 2) =>
        /\ ret.final_decision = TAKE_PROFIT <=> AtTakeProfit
        /\ ret.votes[1] = TAKE_PROFIT <=> AtTakeProfit
        /\ ret.votes[3] = TAKE_PROFIT <=> AtTakeProfit

\* A take-profit was decided outside the close-time window, where the
\* close-only vote holds, without an ATR and with the benchmark down.
C29_Witness ==
    /\ Evaluated
    /\ smart_config.vote_threshold = 2
    /\ ret.final_decision = TAKE_PROFIT
    /\ ~InCloseWindow(ret.time)
    /\ ~ret.force_close_check
    /\ ret.votes = <<TAKE_PROFIT, HOLD, TAKE_PROFIT>>
    /\ ret.atr = 0
    /\ ret.market_change < 0

-----------------------------------------------------------------------------
(* Two processes over one data directory (SpecShared) *)

\* The RiskManager a process holds in memory.
Manager(stopped, stats, lot, stops) ==
    [ emergency_stop |-> stopped, daily_stats |-> stats, last_order_time |-> lot,
      position_stops |-> stops ]

\* The second process starts: RiskManager.__init__ loads risk_state.json as
\* it is at that moment.
PeerStart ==
    /\ peer = None
    /\ LET st == LoadedState(state_file)
       IN  peer' = Some(Manager(st.emergency_stop, st.daily_stats, EmptyMap,
                                st.position_stops))
    /\ ret' = Return("init", TRUE, "")
    /\ UNCHANGED <<smart_config, atr_cache, market_cache, in_flight, config, now,
                   emergency_stop, daily_stats, last_order_time, position_stops, state_file,
                   trade_log, dry_run, broker_orders, session_start>>

\* record_trade in the second process: its own statistics and last-order
\* times, a line appended to the shared trade log, and risk_state.json
\* overwritten with its own state.
PeerRecordTrade(trade) ==
    /\ peer # None
    /\ Len(trade_log) < MaxTrades
    /\ LET p     == peer[1]
           stats == RecordedDailyStats(p.daily_stats, Today, trade)
       IN  /\ peer' = Some(Manager(p.emergency_stop, stats,
                                   RecordedOrderTime(p.last_order_time, now, trade),
                                   p.position_stops))
           /\ state_file' = SavedState(p.emergency_stop, stats, p.position_stops)
    /\ trade_log' = Append(trade_log, trade)
    /\ ret' = Return("record_trade", TRUE, "")
    /\ UNCHANGED <<smart_config, atr_cache, market_cache, in_flight, config, now,
                   emergency_stop, daily_stats, last_order_time, position_stops, dry_run,
                   broker_orders, session_start>>

\* The second process ends.
PeerExit ==
    /\ peer # None
    /\ peer' = None
    /\ ret' = Return("exit", TRUE, "")
    /\ UNCHANGED <<smart_config, atr_cache, market_cache, in_flight, config, now,
                   emergency_stop, daily_stats, last_order_time, position_stops, state_file,
                   trade_log, dry_run, broker_orders, session_start>>

NextShared ==
    \/ \E trade \in TradeInputs(Len(trade_log) + 1, now) : RecordTrade(trade)
    \/ PeerStart
    \/ \E trade \in TradeInputs(Len(trade_log) + 1, now) : PeerRecordTrade(trade)
    \/ PeerExit
    \/ Tick

SpecShared == Init /\ [][NextShared]_vars

\* The trade_count risk_state.json holds for a date, 0 without an entry.
StoredTradeCount(d) == TradeCount(LoadedState(state_file).daily_stats, d)

\* C30: when two processes hold a RiskManager over the same data directory
\* and both record trades, the trade_count stored for a date is the number
\* of record_trade calls both made on it: no update is lost.
C30_StoredCountIsTotal ==
    \A d \in Dates : StoredTradeCount(d) = Len(LogOfDate(trade_log, d))

=============================================================================
